---- MODULE Spec2Model ----
(***************************************************************************)
(* A model of the HiveMind knowledge-lifecycle engine: the add_knowledge   *)
(* ingestion flow with its gates, the pending queue and its approval, the  *)
(* knowledge_items table with its bi-temporal and soft-delete columns, the *)
(* retrieval tools, the burst gate over the Redis sorted set and the       *)
(* outcome-signal log.                                                     *)
(*                                                                         *)
(* Texts are sequences of whitespace-separated tokens.  Timestamps are     *)
(* integers read from the clock `now`; a NULL column is -1.  Fractions     *)
(* (confidence, quality_score, distances) are integers in hundredths.      *)
(***************************************************************************)
EXTENDS Integers, Sequences, FiniteSets, TLC

VARIABLES
    items,      \* knowledge_items table: sequence of rows, the index is the id
    pending,    \* pending_contributions table: set of rows
    npending,   \* number of pending rows ever inserted (source of fresh ids)
    lsh,        \* keys held by the process-wide MinHash-LSH index
    burst,      \* Redis ZSETs "burst:{org}:contributions": org -> score -> count
    signals,    \* quality_signals table: sequence of rows, the index is the id
    calls,      \* handler invocations in flight, and how each one ended
    last_run,   \* deployment_config["quality_aggregation_last_run"], or NULL
    published,  \* the payloads notified on channel knowledge_published
    subscribers,       \* SSE feeds: each one's listener, queue and events sent
    webhook_endpoints, \* webhook_endpoints table: set of rows
    celery,     \* deliver_webhook tasks handed to the broker, in order
    casbin,     \* casbin_rule table: policy rules p and role bindings g
    now,        \* the wall clock
    req,        \* the call that ran last: its caller and arguments
    resp        \* the response that call returned

(* the notification fabric and the policy store *)
fabric_vars == <<subscribers, webhook_endpoints, celery, casbin>>

vars == <<items, pending, npending, lsh, burst, signals, calls, last_run,
          published, fabric_vars, now, req, resp>>

----------------------------------------------------------------------------
(* Bounds of the model *)

MaxItems == 2
MaxContribs == 2
MaxTime == 1
MaxCalls == 4
MaxSignals == 2
MaxRetrievals == 1

(* Program constants and configuration *)

NULL == -1
MinContentLength == 10
PiiRejectionPercent == 50
CosineThreshold == 35
MinhashThreshold == 95
DefaultTopK == 10
MaxLlmCandidates == 3
DefaultQualityScore == 50

(* settings.burst_threshold / settings.burst_window_seconds, as configured
   for this deployment (the defaults are 50 and 60) *)
BurstThreshold == 2
BurstWindowSeconds == 1

----------------------------------------------------------------------------
(* Callers, categories and texts *)

Orgs == {"orgA", "orgB"}

AuthContexts ==
    { [org_id |-> "orgA", agent_id |-> "a1"],
      [org_id |-> "orgA", agent_id |-> "a2"],
      [org_id |-> "orgB", agent_id |-> "b1"] }

NoAuth == [org_id |-> "none", agent_id |-> "none"]

KnowledgeCategory == {"bug_fix", "general"}

(* auto_approve_rules rows with is_auto_approve = true *)
AutoApproveRule == { <<"orgA", "general">>, <<"orgB", "general">> }

PiiTokens == {"bob@x.io", "ann@y.io"}

Placeholders == {"[EMAIL]", "[REDACTED]"}

InjectionTokens == {"ignore"}

TokLen(t) ==
    CASE t = "fix" -> 3
      [] t = "it" -> 2
      [] t = "use" -> 3
      [] t \in {"retry", "loops", "daily", "prior", "rules"} -> 5
      [] t = "mail" -> 4
      [] t = "ignore" -> 6
      [] t \in PiiTokens -> 8
      [] t = "[EMAIL]" -> 7
      [] OTHER -> 10

RECURSIVE SumLen(_)
SumLen(text) ==
    IF text = <<>> THEN 0 ELSE TokLen(Head(text)) + SumLen(Tail(text))

(* len(content): the tokens and the single spaces between them *)
CharLen(text) ==
    IF text = <<>> THEN 0 ELSE SumLen(text) + (Len(text) - 1)

TokenSet(text) == { text[i] : i \in 1..Len(text) }

----------------------------------------------------------------------------
(* Pipeline components *)

(* PIIPipeline.strip: detected entities are replaced by typed placeholders;
   the text is rejected when more than half of its tokens are placeholders *)
StripText(text) ==
    [i \in 1..Len(text) |-> IF text[i] \in PiiTokens THEN "[EMAIL]" ELSE text[i]]

PlaceholderCount(text) ==
    Cardinality({ i \in 1..Len(text) : text[i] \in Placeholders })

(* Markdown text is a sequence of lexemes: a backtick BT, a whitespace " ",
   a word, a PII value or a placeholder literal.  The keys stand for the
   uuid4-named placeholders, each issued once. *)
BT == "backtick"

CodeBlockKeys ==
    <<"__CODE_BLOCK_1__", "__CODE_BLOCK_2__", "__CODE_BLOCK_3__", "__CODE_BLOCK_4__">>

InlineKeys == <<"__INLINE_1__", "__INLINE_2__", "__INLINE_3__", "__INLINE_4__">>

(* three backticks at position i *)
IsFenceAt(t, i) ==
    i + 2 <= Len(t) /\ t[i] = BT /\ t[i + 1] = BT /\ t[i + 2] = BT

(* _FENCED_CODE_RE.sub(replace_fenced, text) from position i on, acc being
   the text and the map built so far: the leftmost fence up to the nearest
   closing fence becomes the next key *)
RECURSIVE replace_fenced(_, _, _)
replace_fenced(t, i, acc) ==
    IF i > Len(t) THEN acc
    ELSE LET closes == { j \in (i + 3)..Len(t) : IsFenceAt(t, j) }
             j == IF closes = {} THEN 0
                  ELSE CHOOSE c \in closes : \A d \in closes : c <= d
             key == CodeBlockKeys[Len(acc.map) + 1]
         IN  IF IsFenceAt(t, i) /\ j > 0
             THEN replace_fenced(t, j + 3,
                      [text |-> Append(acc.text, key),
                       map |-> Append(acc.map,
                                      [key |-> key, original |-> SubSeq(t, i, j + 2)])])
             ELSE replace_fenced(t, i + 1,
                      [text |-> Append(acc.text, t[i]), map |-> acc.map])

(* _INLINE_CODE_RE.sub(replace_inline, text): a backtick, one or more
   lexemes that are not backticks, a backtick *)
RECURSIVE replace_inline(_, _, _)
replace_inline(t, i, acc) ==
    IF i > Len(t) THEN acc
    ELSE LET ticks == { j \in (i + 1)..Len(t) : t[j] = BT }
             j == IF ticks = {} THEN 0
                  ELSE CHOOSE c \in ticks : \A d \in ticks : c <= d
             key == InlineKeys[Len(acc.map) + 1]
         IN  IF t[i] = BT /\ j >= i + 2
             THEN replace_inline(t, j + 1,
                      [text |-> Append(acc.text, key),
                       map |-> Append(acc.map,
                                      [key |-> key, original |-> SubSeq(t, i, j)])])
             ELSE replace_inline(t, i + 1,
                      [text |-> Append(acc.text, t[i]), map |-> acc.map])

(* fenced blocks first, inline spans second, on the text the first pass left;
   the map keeps the order of insertion *)
extract_code_blocks(text) ==
    LET fenced == replace_fenced(text, 1, [text |-> <<>>, map |-> <<>>])
        inline == replace_inline(fenced.text, 1, [text |-> <<>>, map |-> <<>>])
    IN  [text |-> inline.text, map |-> fenced.map \o inline.map]

(* str.replace(key, original) *)
RECURSIVE Replace(_, _, _)
Replace(t, key, original) ==
    IF t = <<>> THEN <<>>
    ELSE (IF Head(t) = key THEN original ELSE <<Head(t)>>)
             \o Replace(Tail(t), key, original)

(* one replace per entry of the map, in the map's order *)
RECURSIVE reinject_code_blocks(_, _)
reinject_code_blocks(text, placeholder_map) ==
    IF placeholder_map = <<>> THEN text
    ELSE reinject_code_blocks(Replace(text, placeholder_map[1].key,
                                      placeholder_map[1].original),
                              Tail(placeholder_map))

(* len(cleaned.split()) *)
SplitCount(t) ==
    Cardinality({ i \in 1..Len(t) : t[i] # " " /\ (i = 1 \/ t[i - 1] = " ") })

(* PIIPipeline.strip: extraction, the analyzer and anonymizer passes on the
   narrative, reinjection, and the rejection check on the reinjected text *)
strip(text) ==
    LET extracted == extract_code_blocks(text)
        cleaned_narrative == StripText(extracted.text)
        cleaned == reinject_code_blocks(cleaned_narrative, extracted.map)
        total_tokens == IF SplitCount(cleaned) > 1 THEN SplitCount(cleaned) ELSE 1
    IN  [cleaned |-> cleaned,
         should_reject |->
            PlaceholderCount(cleaned) * 100 > PiiRejectionPercent * total_tokens]

(* strip on a content given as its words: it holds no backtick, so the
   extraction finds no code span, and its words are what split() gives *)
strip_pii(text) ==
    LET cleaned == StripText(text)
        total_tokens == IF Len(cleaned) > 1 THEN Len(cleaned) ELSE 1
    IN  [cleaned |-> cleaned,
         should_reject |->
            PlaceholderCount(cleaned) * 100 > PiiRejectionPercent * total_tokens]

(* one call of the sanitizer *)
Strip(text) ==
    /\ req' = [op |-> "strip", text |-> text]
    /\ resp' = [op |-> "strip", isError |-> FALSE,
                cleaned |-> strip(text).cleaned,
                should_reject |-> strip(text).should_reject]
    /\ UNCHANGED <<fabric_vars, items, pending, npending, lsh, burst, signals, calls,
                   last_run, published, now>>

(* InjectionScanner.is_injection: the classifier's verdict on the raw text *)
is_injection(text) == \E i \in 1..Len(text) : text[i] \in InjectionTokens

(* hashlib.sha256(cleaned).hexdigest(): equal digests iff equal texts *)
compute_content_hash(text) == <<"sha256", text>>

(* cosine distance between the embeddings of two texts, in hundredths: the
   embedder maps texts with the same vocabulary to nearby vectors *)
CosineDistance(a, b) ==
    LET sa == TokenSet(a)
        sb == TokenSet(b)
    IN  100 - (100 * Cardinality(sa \cap sb)) \div Cardinality(sa \cup sb)

(* Jaccard similarity of the token sets, estimated by the MinHash signatures *)
Jaccard(a, b) ==
    LET sa == TokenSet(a)
        sb == TokenSet(b)
    IN  (100 * Cardinality(sa \cap sb)) \div Cardinality(sa \cup sb)

----------------------------------------------------------------------------
(* Tables *)

Ids(tbl) == DOMAIN tbl

NewItem(auth, content, hash, category, confidence, is_public, quality, embedding, contributed_at, approved_at, valid_at) ==
    [org_id |-> auth.org_id,
     source_agent_id |-> auth.agent_id,
     is_public |-> is_public,
     content |-> content,
     content_hash |-> hash,
     category |-> category,
     confidence |-> confidence,
     embedding |-> embedding,
     quality_score |-> quality,
     retrieval_count |-> 0,
     helpful_count |-> 0,
     not_helpful_count |-> 0,
     contributed_at |-> contributed_at,
     approved_at |-> approved_at,
     valid_at |-> valid_at,
     invalid_at |-> NULL,
     expired_at |-> NULL,
     deleted_at |-> NULL,
     provenance_links |-> <<>>]

(* a table without the unique constraint *)
UniqueViolationOff(tbl, hash, org) == FALSE

(* uq_knowledge_items_hash_org: UNIQUE (content_hash, org_id) *)
UniqueViolation(tbl, hash, org) ==
    \E i \in Ids(tbl) : tbl[i].content_hash = hash /\ tbl[i].org_id = org

NoResp == [op |-> "none"]

NoReq == [op |-> "none"]

Idle == [pc |-> "idle"]

ErrorResp(op, text) == [op |-> op, isError |-> TRUE, text |-> text]

----------------------------------------------------------------------------
(* Burst gate (security/rate_limit.py) *)

EmptyZset == [t \in 0..MaxTime |-> 0]

ZAdd(z, score) == [z EXCEPT ![score] = @ + 1]

ZRemRangeByScore(z, max) == [t \in 0..MaxTime |-> IF t <= max THEN 0 ELSE z[t]]

RECURSIVE ZCardUpTo(_, _)
ZCardUpTo(z, t) == IF t < 0 THEN 0 ELSE z[t] + ZCardUpTo(z, t - 1)

ZCard(z) == ZCardUpTo(z, MaxTime)

(* check_burst run without interruption: the sorted set afterwards and the
   verdict *)
check_burst(z, t) ==
    LET added == ZAdd(z, t)
        pruned == ZRemRangeByScore(added, t - BurstWindowSeconds)
    IN  [zset |-> pruned, is_burst |-> ZCard(pruned) > BurstThreshold]

----------------------------------------------------------------------------
(* Dedup pipeline (dedup/) and conflict resolver (conflict/resolver.py) *)

LlmAnswers ==
    { [is_duplicate |-> FALSE, confidence |-> 0],
      [is_duplicate |-> TRUE, confidence |-> 0],
      [is_duplicate |-> TRUE, confidence |-> 90] }

ConflictActions == {"UPDATE", "ADD", "NOOP", "VERSION_FORK", "FLAGGED_FOR_REVIEW"}

(* _VALID_ACTIONS *)
ValidActions == {"UPDATE", "ADD", "NOOP", "VERSION_FORK"}

(* What a call of the LLM API comes to: no API key is configured, the call
   times out, it fails with an HTTP error, the text returned is no JSON
   object, or the LLM answers *)
LlmFailures ==
    { [kind |-> "no_api_key"], [kind |-> "timeout"], [kind |-> "http_error"],
      [kind |-> "unparsable"] }

DedupAnswer(a) ==
    [kind |-> "answer", is_duplicate |-> a.is_duplicate, confidence |-> a.confidence]

ConflictAnswer(action, is_direct_conflict) ==
    [kind |-> "answer", action |-> action, is_direct_conflict |-> is_direct_conflict]

(* the answers of a reachable LLM: each of LlmAnswers for Stage 3, and one
   for each outcome of the resolver *)
DedupReplies == { DedupAnswer(a) : a \in LlmAnswers }

ConflictReplies ==
    { ConflictAnswer(a, TRUE) : a \in ValidActions } \cup { ConflictAnswer("ADD", FALSE) }

(* confirm_duplicate_llm: every failure is a denial with confidence 0 *)
confirm_duplicate_llm(reply) ==
    IF reply.kind # "answer" THEN [is_duplicate |-> FALSE, confidence |-> 0]
    ELSE [is_duplicate |-> reply.is_duplicate, confidence |-> reply.confidence]

(* resolve_conflict with every failure answered UPDATE *)
resolve_conflict_update(reply) ==
    IF reply.kind # "answer" THEN "UPDATE"
    ELSE IF ~reply.is_direct_conflict THEN "FLAGGED_FOR_REVIEW"
    ELSE IF reply.action \in ValidActions THEN reply.action ELSE "ADD"

(* resolve_conflict: every failure and every unknown action is ADD, a
   multi-hop conflict is flagged for review *)
resolve_conflict(reply) ==
    IF reply.kind # "answer" THEN "ADD"
    ELSE IF ~reply.is_direct_conflict THEN "FLAGGED_FOR_REVIEW"
    ELSE IF reply.action \in ValidActions THEN reply.action ELSE "ADD"

(* Stage 1: rows of the caller's org or public, embedded, not deleted, not
   expired, closer than the threshold.  The LIMIT top_k cuts nothing while
   the table holds fewer than DefaultTopK rows. *)
find_cosine_candidates(tbl, content, org) ==
    { i \in Ids(tbl) :
        /\ tbl[i].org_id = org \/ tbl[i].is_public
        /\ tbl[i].embedding
        /\ tbl[i].deleted_at = NULL
        /\ tbl[i].expired_at = NULL
        /\ CosineDistance(content, tbl[i].content) < CosineThreshold }

(* Stage 2: the keys of the LSH index whose signature is within the Jaccard
   threshold of the query *)
find_minhash_candidates(tbl, index, content) ==
    { i \in index : Jaccard(content, tbl[i].content) >= MinhashThreshold }

(* the orders in which the database may return the candidates S: ascending
   cosine distance, ties in any order *)
SortedByDistance(tbl, S, content) ==
    { s \in [1..Cardinality(S) -> S] :
        /\ \A i, j \in 1..Cardinality(S) : i # j => s[i] # s[j]
        /\ \A i, j \in 1..Cardinality(S) :
              i < j => CosineDistance(content, tbl[s[i]].content)
                         <= CosineDistance(content, tbl[s[j]].content) }

(* the Stage 3 loop taking the most confident answer, confirmed or not *)
RECURSIVE LlmBestAny(_, _, _)
LlmBestAny(cands, llm, k) ==
    IF k = 0 THEN [confirmed |-> FALSE, best_match_id |-> 0, best_confidence |-> 0]
    ELSE LET prev == LlmBestAny(cands, llm, k - 1)
         IN  IF llm[k].confidence > prev.best_confidence
             THEN [confirmed |-> TRUE, best_match_id |-> cands[k],
                   best_confidence |-> llm[k].confidence]
             ELSE prev

(* Stage 3 loop: the best confirmed candidate so far, after the first k *)
RECURSIVE LlmBest(_, _, _)
LlmBest(cands, llm, k) ==
    IF k = 0 THEN [confirmed |-> FALSE, best_match_id |-> 0, best_confidence |-> 0]
    ELSE LET prev == LlmBest(cands, llm, k - 1)
         IN  IF llm[k].is_duplicate /\ llm[k].confidence > prev.best_confidence
             THEN [confirmed |-> TRUE, best_match_id |-> cands[k],
                   best_confidence |-> llm[k].confidence]
             ELSE prev

NumLlmCandidates(cands) ==
    IF Len(cands) < MaxLlmCandidates THEN Len(cands) ELSE MaxLlmCandidates

(* run_dedup_pipeline: cosine is the set of Stage-1 survivors, cands the
   intersection with Stage 2 in the order returned, llm the answers of the
   LLM for the first MaxLlmCandidates of them *)
run_dedup_pipeline(cosine, cands, llm) ==
    IF cosine = {} THEN
        [action |-> "ADD", duplicate_of |-> 0, duplicates |-> <<>>,
         stages_run |-> <<"cosine">>]
    ELSE IF cands = <<>> THEN
        [action |-> "ADD", duplicate_of |-> 0, duplicates |-> <<>>,
         stages_run |-> <<"cosine", "minhash">>]
    ELSE LET best == LlmBest(cands, llm, NumLlmCandidates(cands))
         IN  [action |-> IF best.confirmed THEN "DUPLICATE" ELSE "ADD",
              duplicate_of |-> best.best_match_id,
              duplicates |-> cands,
              stages_run |-> <<"cosine", "minhash", "llm">>]

(* the UPDATE statements without their org_id condition *)
apply_conflict_resolution_any_org(tbl, action, existing_item_id, org, t) ==
    [i \in Ids(tbl) |->
        IF i = existing_item_id
        THEN IF action = "UPDATE" THEN [tbl[i] EXCEPT !.expired_at = t]
             ELSE IF action = "VERSION_FORK" THEN [tbl[i] EXCEPT !.invalid_at = t]
             ELSE tbl[i]
        ELSE tbl[i]]

(* apply_conflict_resolution: the UPDATE statements of the UPDATE and
   VERSION_FORK branches *)
apply_conflict_resolution(tbl, action, existing_item_id, org, t) ==
    [i \in Ids(tbl) |->
        IF i = existing_item_id /\ tbl[i].org_id = org
        THEN IF action = "UPDATE" THEN [tbl[i] EXCEPT !.expired_at = t]
             ELSE IF action = "VERSION_FORK" THEN [tbl[i] EXCEPT !.invalid_at = t]
             ELSE tbl[i]
        ELSE tbl[i]]

(* rebuild_lsh_index: the index is dropped and filled with every row that
   is neither soft-deleted nor expired *)
RebuildLshIndex ==
    /\ lsh' = { i \in Ids(items) :
                   items[i].deleted_at = NULL /\ items[i].expired_at = NULL }
    /\ req' = NoReq
    /\ resp' = NoResp
    /\ UNCHANGED <<fabric_vars, last_run, published, items, pending, npending, burst, now, signals, calls>>

(* one call of run_dedup_pipeline(content, org_id): the database returns the
   Stage-1 rows in some order of ascending distance, and the LLM answers
   each of the first MaxLlmCandidates survivors of Stage 2 with one of
   answers; the request records the candidates put to the LLM and what it
   said *)
RunDedupPipeline(content, org_id, answers) ==
    LET cosine == find_cosine_candidates(items, content, org_id)
        inter == cosine \cap find_minhash_candidates(items, lsh, content)
    IN  \E cands \in SortedByDistance(items, inter, content) :
        \E llm \in [1..NumLlmCandidates(cands) -> answers] :
            /\ req' = [op |-> "run_dedup_pipeline", content |-> content,
                       org_id |-> org_id,
                       llm_candidates |-> SubSeq(cands, 1, NumLlmCandidates(cands)),
                       llm |-> llm]
            /\ resp' = [op |-> "run_dedup_pipeline", isError |-> FALSE,
                        result |-> run_dedup_pipeline(cosine, cands, llm)]
            /\ UNCHANGED <<fabric_vars, last_run, published, items, pending, npending, lsh, burst, now, signals, calls>>

----------------------------------------------------------------------------
(* add_knowledge (server/tools/add_knowledge.py) *)

GateErrors ==
    {"too_short", "bad_confidence", "bad_category", "auth", "injection",
     "rate_limit", "too_redacted"}

(* Steps 0 to 1.5: validation, authentication and the injection scan *)
EarlyGate(h, content, category, confidence) ==
    IF CharLen(content) < MinContentLength THEN "too_short"
    ELSE IF ~(0 <= confidence /\ confidence <= 100) THEN "bad_confidence"
    ELSE IF category \notin KnowledgeCategory THEN "bad_category"
    ELSE IF h \notin AuthContexts THEN "auth"
    ELSE IF is_injection(content) THEN "injection"
    ELSE "ok"

(* the gates with the burst check run before the injection scan *)
GatesBurstFirst(h, content, category, confidence, zsets) ==
    LET early == EarlyGate(h, content, category, confidence)
    IN  IF early \notin {"injection", "ok"} THEN [error |-> early, zsets |-> zsets]
        ELSE LET b == check_burst(zsets[h.org_id], now)
                 z2 == [zsets EXCEPT ![h.org_id] = b.zset]
             IN  IF b.is_burst THEN [error |-> "rate_limit", zsets |-> z2]
                 ELSE IF early = "injection"
                      THEN [error |-> "injection", zsets |-> z2]
                      ELSE IF strip_pii(content).should_reject
                           THEN [error |-> "too_redacted", zsets |-> z2]
                           ELSE [error |-> "ok", zsets |-> z2]

(* Steps 0 to 3: the first gate that rejects, and the sorted sets as the
   burst gate leaves them *)
Gates(h, content, category, confidence, zsets) ==
    LET early == EarlyGate(h, content, category, confidence)
    IN  IF early # "ok" THEN [error |-> early, zsets |-> zsets]
        ELSE LET b == check_burst(zsets[h.org_id], now)
                 z2 == [zsets EXCEPT ![h.org_id] = b.zset]
             IN  IF b.is_burst THEN [error |-> "rate_limit", zsets |-> z2]
                 ELSE IF strip_pii(content).should_reject
                      THEN [error |-> "too_redacted", zsets |-> z2]
                      ELSE [error |-> "ok", zsets |-> z2]

(* Step 5b: the auto-approve insert or the pending insert, on the table as
   the conflict resolution left it.  The auto-approve insert reads the clock
   twice: t for contributed_at, then approved for approved_at. *)
InsertContribution(tbl, pend, np, auth, cleaned, category, confidence, tags, fork_valid_at, t, approved) ==
    LET hash == compute_content_hash(cleaned)
    IN  IF <<auth.org_id, category>> \in AutoApproveRule THEN
            IF UniqueViolation(tbl, hash, auth.org_id) THEN
                [items |-> tbl, pending |-> pend, npending |-> np,
                 resp |-> ErrorResp("add_knowledge", "integrity_error")]
            ELSE
                [items |-> Append(tbl,
                              NewItem(auth, cleaned, hash, category, confidence,
                                      FALSE, DefaultQualityScore, TRUE, t,
                                      approved, fork_valid_at)),
                 pending |-> pend, npending |-> np,
                 resp |-> [op |-> "add_knowledge", isError |-> FALSE,
                           status |-> "auto_approved",
                           contribution_id |-> Len(tbl) + 1]]
        ELSE
            [items |-> tbl,
             pending |-> pend \cup
                { [id |-> np + 1, org_id |-> auth.org_id,
                   source_agent_id |-> auth.agent_id, content |-> cleaned,
                   content_hash |-> hash, category |-> category,
                   confidence |-> confidence, tags |-> tags,
                   contributed_at |-> t] },
             npending |-> np + 1,
             resp |-> [op |-> "add_knowledge", isError |-> FALSE,
                       status |-> "queued", contribution_id |-> np + 1]]

(* Steps 4 to 6 for a contribution that passed the gates *)
Ingest(tbl, pend, np, auth, cleaned, category, confidence, cosine, cands, llm, caction, t, approved) ==
    LET dedup == run_dedup_pipeline(cosine, cands, llm)
        is_dup == dedup.action = "DUPLICATE"
        existing_item_id == dedup.duplicates[1]
        action == IF is_dup THEN caction ELSE "ADD"
        after == IF is_dup /\ action \in {"UPDATE", "VERSION_FORK"}
                 THEN apply_conflict_resolution(tbl, action, existing_item_id,
                                                auth.org_id, t)
                 ELSE tbl
        tags == IF is_dup /\ action = "FLAGGED_FOR_REVIEW"
                THEN {"conflict_flagged"} ELSE {}
        fork_valid_at == IF is_dup /\ action = "VERSION_FORK" THEN t ELSE NULL
    IN  IF is_dup /\ action = "NOOP" THEN
            [items |-> tbl, pending |-> pend, npending |-> np,
             resp |-> [op |-> "add_knowledge", isError |-> FALSE,
                       status |-> "duplicate_detected",
                       contribution_id |-> existing_item_id]]
        ELSE InsertContribution(after, pend, np, auth, cleaned, category,
                                confidence, tags, fork_valid_at, t, approved)

(* a handler that writes the contribution before it looks at the gates *)
AddOutcomeWritesFirst(gate, ingested, tbl, pend, np) ==
    IF gate.error # "ok"
    THEN [ingested EXCEPT !.resp = ErrorResp("add_knowledge", gate.error)]
    ELSE ingested

(* the handler's result: a rejected call returns the gate's error and
   writes nothing to the database *)
AddOutcome(gate, ingested, tbl, pend, np) ==
    IF gate.error # "ok" THEN
        [items |-> tbl, pending |-> pend, npending |-> np,
         resp |-> ErrorResp("add_knowledge", gate.error)]
    ELSE ingested

(* the answer of resolve_conflict the call received, for a contribution the
   dedup pipeline reported as a duplicate *)
Resolution(dedup, caction) ==
    IF dedup.action = "DUPLICATE"
    THEN [action |-> caction, existing_item_id |-> dedup.duplicates[1],
          duplicate_of |-> dedup.duplicate_of]
    ELSE [action |-> "none", existing_item_id |-> 0, duplicate_of |-> 0]

(* the results of confirm_duplicate_llm for the replies of the LLM *)
Confirmations(n, replies) ==
    { [k \in 1..n |-> confirm_duplicate_llm(raw[k])] : raw \in [1..n -> replies] }

(* the results of resolve_conflict for the replies of the LLM *)
Resolutions(replies) == { resolve_conflict(reply) : reply \in replies }

(* add_knowledge with the LLM answering Stage 3 out of dedup_replies and the
   resolver out of conflict_replies; approved is the second reading of the
   clock in the auto-approve insert, at or after the first *)
AddKnowledgeLlm(h, content, category, confidence, approved, dedup_replies, conflict_replies) ==
    LET gate == Gates(h, content, category, confidence, burst)
        cleaned == strip_pii(content).cleaned
        cosine == find_cosine_candidates(items, cleaned, h.org_id)
        inter == cosine \cap find_minhash_candidates(items, lsh, cleaned)
    IN  \E cands \in IF gate.error = "ok"
                     THEN SortedByDistance(items, inter, cleaned) ELSE {<<>>} :
        \E llm \in Confirmations(NumLlmCandidates(cands), dedup_replies) :
        \E caction \in IF run_dedup_pipeline(cosine, cands, llm).action = "DUPLICATE"
                       THEN Resolutions(conflict_replies) ELSE {"ADD"} :
            LET ingested == Ingest(items, pending, npending, h, cleaned, category,
                                   confidence, cosine, cands, llm, caction, now,
                                   approved)
                out == AddOutcome(gate, ingested, items, pending, npending)
            IN  /\ Len(out.items) <= MaxItems
                /\ out.npending <= MaxContribs
                /\ h \in AuthContexts => ZCard(gate.zsets[h.org_id]) <= BurstThreshold + 1
                /\ items' = out.items
                /\ pending' = out.pending
                /\ npending' = out.npending
                /\ burst' = gate.zsets
                /\ resp' = out.resp
                /\ req' = [op |-> "add_knowledge", h |-> h, content |-> content,
                           category |-> category, confidence |-> confidence,
                           resolution |->
                               IF gate.error = "ok"
                               THEN Resolution(run_dedup_pipeline(cosine, cands, llm),
                                               caction)
                               ELSE Resolution([action |-> "ADD"], "ADD")]
                /\ UNCHANGED <<fabric_vars, last_run, published, lsh, now, signals, calls>>

(* add_knowledge with the LLM reachable *)
AddKnowledgeAt(h, content, category, confidence, approved) ==
    AddKnowledgeLlm(h, content, category, confidence, approved, DedupReplies,
                    ConflictReplies)

(* add_knowledge when the clock does not advance between the two readings *)
AddKnowledge(h, content, category, confidence) ==
    AddKnowledgeAt(h, content, category, confidence, now)

----------------------------------------------------------------------------
(* add_knowledge as concurrent requests see it: check_burst awaits Redis
   three times (zadd, zremrangebyscore, zcard), and other requests run in
   between *)

AddRequest(c) ==
    [op |-> "add_knowledge", h |-> c.h, content |-> c.content,
     category |-> c.category, confidence |-> c.confidence]

(* Steps 0 to 1.5, then check_burst reads the clock *)
BurstEnter(slot, h, content, category, confidence) ==
    LET early == EarlyGate(h, content, category, confidence)
    IN  /\ calls[slot] = Idle
        /\ \A k \in 1..(slot - 1) : calls[k] # Idle
        /\ IF early # "ok"
           THEN /\ calls' = calls
                /\ req' = [op |-> "add_knowledge", h |-> h, content |-> content,
                           category |-> category, confidence |-> confidence]
                /\ resp' = ErrorResp("add_knowledge", early)
           ELSE /\ calls' = [calls EXCEPT ![slot] =
                               [pc |-> "zadd", h |-> h, content |-> content,
                                category |-> category, confidence |-> confidence,
                                now |-> now]]
                /\ req' = NoReq
                /\ resp' = NoResp
        /\ UNCHANGED <<fabric_vars, last_run, published, items, pending, npending, lsh, burst, signals, now>>

BurstZAdd(slot) ==
    /\ calls[slot].pc = "zadd"
    /\ burst' = [burst EXCEPT ![calls[slot].h.org_id] = ZAdd(@, calls[slot].now)]
    /\ calls' = [calls EXCEPT ![slot].pc = "zremrangebyscore"]
    /\ req' = NoReq
    /\ resp' = NoResp
    /\ UNCHANGED <<fabric_vars, last_run, published, items, pending, npending, lsh, signals, now>>

BurstPrune(slot) ==
    /\ calls[slot].pc = "zremrangebyscore"
    /\ burst' = [burst EXCEPT ![calls[slot].h.org_id] =
                    ZRemRangeByScore(@, calls[slot].now - BurstWindowSeconds)]
    /\ calls' = [calls EXCEPT ![slot].pc = "zcard"]
    /\ req' = NoReq
    /\ resp' = NoResp
    /\ UNCHANGED <<fabric_vars, last_run, published, items, pending, npending, lsh, signals, now>>

(* zcard and the verdict: a flagged request returns the rate-limit error *)
BurstCount(slot) ==
    /\ calls[slot].pc = "zcard"
    /\ IF ZCard(burst[calls[slot].h.org_id]) > BurstThreshold
       THEN /\ calls' = [calls EXCEPT ![slot].pc = "flagged"]
            /\ req' = AddRequest(calls[slot])
            /\ resp' = ErrorResp("add_knowledge", "rate_limit")
       ELSE /\ calls' = [calls EXCEPT ![slot].pc = "passed"]
            /\ req' = NoReq
            /\ resp' = NoResp
    /\ UNCHANGED <<fabric_vars, last_run, published, items, pending, npending, lsh, burst, signals, now>>

(* Steps 2 to 6 of a request the burst gate let through *)
AddFinish(slot) ==
    LET c == calls[slot]
        pii == strip_pii(c.content)
        cosine == find_cosine_candidates(items, pii.cleaned, c.h.org_id)
        inter == cosine \cap find_minhash_candidates(items, lsh, pii.cleaned)
    IN  /\ c.pc = "passed"
        /\ \E cands \in SortedByDistance(items, inter, pii.cleaned) :
           \E llm \in [1..NumLlmCandidates(cands) -> LlmAnswers] :
           \E caction \in IF run_dedup_pipeline(cosine, cands, llm).action = "DUPLICATE"
                          THEN ConflictActions ELSE {"ADD"} :
               LET out == IF pii.should_reject
                          THEN [items |-> items, pending |-> pending,
                                npending |-> npending,
                                resp |-> ErrorResp("add_knowledge", "too_redacted")]
                          ELSE Ingest(items, pending, npending, c.h, pii.cleaned,
                                      c.category, c.confidence, cosine, cands,
                                      llm, caction, now, now)
               IN  /\ Len(out.items) <= MaxItems
                   /\ out.npending <= MaxContribs
                   /\ items' = out.items
                   /\ pending' = out.pending
                   /\ npending' = out.npending
                   /\ resp' = out.resp
        /\ req' = AddRequest(c)
        /\ calls' = [calls EXCEPT ![slot].pc = "done"]
        /\ UNCHANGED <<fabric_vars, last_run, published, lsh, burst, signals, now>>

----------------------------------------------------------------------------
(* search_knowledge (server/tools/search_knowledge.py) *)

RrfK == 60
CteLimit == 20
MaxSearchLimit == 50

NoCategory == "any"

(* Cursors. A byte is its code (48..57 the digits, 45 "-", 43 "+", 32 the
   space, 95 "_"); a cursor is a string of base64 symbols: 0..63 the
   sextets of the URL-safe alphabet, Pad the "=", anything above Pad a
   character outside the alphabet. *)
Pad == 64

RECURSIVE Decimal(_)
Decimal(n) ==
    IF n < 10 THEN <<48 + n>> ELSE Append(Decimal(n \div 10), 48 + (n % 10))

(* str(offset) *)
str(n) == IF n < 0 THEN <<45>> \o Decimal(0 - n) ELSE Decimal(n)

(* base64.urlsafe_b64encode: three bytes to four sextets, the last group
   padded *)
RECURSIVE urlsafe_b64encode(_)
urlsafe_b64encode(bytes) ==
    IF bytes = <<>> THEN <<>>
    ELSE IF Len(bytes) = 1 THEN
        << bytes[1] \div 4, (bytes[1] % 4) * 16, Pad, Pad >>
    ELSE IF Len(bytes) = 2 THEN
        << bytes[1] \div 4, (bytes[1] % 4) * 16 + (bytes[2] \div 16),
           (bytes[2] % 16) * 4, Pad >>
    ELSE
        << bytes[1] \div 4, (bytes[1] % 4) * 16 + (bytes[2] \div 16),
           (bytes[2] % 16) * 4 + (bytes[3] \div 64), bytes[3] % 64 >>
        \o urlsafe_b64encode(SubSeq(bytes, 4, Len(bytes)))

(* one symbol of the lenient decoder: a character outside the alphabet is
   skipped, a pad that completes a group ends the decoding, a sextet adds
   its six bits *)
a2b_step(st, ch) ==
    IF st.done THEN st
    ELSE IF ch = Pad THEN
        IF st.quad_pos >= 2 /\ st.quad_pos + st.pads + 1 >= 4
        THEN [st EXCEPT !.done = TRUE]
        ELSE IF st.quad_pos >= 2 THEN [st EXCEPT !.pads = @ + 1]
        ELSE st
    ELSE IF ch > Pad THEN st
    ELSE IF st.quad_pos = 0 THEN
        [st EXCEPT !.quad_pos = 1, !.leftchar = ch, !.pads = 0]
    ELSE IF st.quad_pos = 1 THEN
        [st EXCEPT !.quad_pos = 2, !.pads = 0,
                   !.out = Append(@, st.leftchar * 4 + (ch \div 16)),
                   !.leftchar = ch % 16]
    ELSE IF st.quad_pos = 2 THEN
        [st EXCEPT !.quad_pos = 3, !.pads = 0,
                   !.out = Append(@, st.leftchar * 16 + (ch \div 4)),
                   !.leftchar = ch % 4]
    ELSE
        [st EXCEPT !.quad_pos = 0, !.pads = 0,
                   !.out = Append(@, st.leftchar * 64 + ch),
                   !.leftchar = 0]

(* base64.urlsafe_b64decode: binascii.Error (ok = FALSE) when the symbols
   end inside a group *)
a2b_result(end) == [ok |-> end.done \/ end.quad_pos = 0, bytes |-> end.out]

urlsafe_b64decode(s) ==
    LET F[k \in 0..Len(s)] ==
            IF k = 0
            THEN [quad_pos |-> 0, leftchar |-> 0, pads |-> 0, out |-> <<>>,
                  done |-> FALSE]
            ELSE a2b_step(F[k - 1], s[k])
    IN  a2b_result(F[Len(s)])

IsSpace(b) == b = 32 \/ b \in 9..13

IsDigit(b) == b \in 48..57

(* the blanks int() ignores on both sides *)
strip_blanks(text) ==
    LET kept == { k \in 1..Len(text) : ~IsSpace(text[k]) }
        first == CHOOSE k \in kept : \A j \in kept : k <= j
        last == CHOOSE k \in kept : \A j \in kept : j <= k
    IN  IF kept = {} THEN <<>> ELSE SubSeq(text, first, last)

(* int(text): blanks around, one sign, decimal digits with single
   underscores between them; ValueError (ok = FALSE) otherwise. A byte that
   is no ASCII digit, sign, blank or underscore makes the text invalid. *)
int_digits(negative, body) ==
    LET valid == /\ body # <<>>
                 /\ \A k \in 1..Len(body) :
                        \/ IsDigit(body[k])
                        \/ /\ body[k] = 95
                           /\ 1 < k /\ k < Len(body)
                           /\ IsDigit(body[k - 1]) /\ IsDigit(body[k + 1])
        F[k \in 0..Len(body)] ==
            IF k = 0 THEN 0
            ELSE IF IsDigit(body[k]) THEN F[k - 1] * 10 + (body[k] - 48)
            ELSE F[k - 1]
        value == IF negative THEN 0 - F[Len(body)] ELSE F[Len(body)]
    IN  [ok |-> valid, value |-> IF valid THEN value ELSE 0]

int_signed(s) ==
    IF s # <<>> /\ s[1] \in {43, 45}
    THEN int_digits(s[1] = 45, Tail(s))
    ELSE int_digits(FALSE, s)

int(text) == int_signed(strip_blanks(text))

encode_cursor(offset) == urlsafe_b64encode(str(offset))

(* 0 on any exception of the decoding or of int() *)
int_or_zero(raw) == IF raw.ok THEN int(raw.bytes).value ELSE 0

decode_cursor(cursor) == int_or_zero(urlsafe_b64decode(cursor))

(* no cursor; the empty string is falsy as well *)
NoCursor == <<>>

verify_content_hash(content, hash) == compute_content_hash(content) = hash

Orderings(S) ==
    { s \in [1..Cardinality(S) -> S] :
        \A i, j \in 1..Cardinality(S) : i # j => s[i] # s[j] }

Take(s, n) == SubSeq(s, 1, IF Len(s) < n THEN Len(s) ELSE n)

RankOf(s, i) ==
    IF \E k \in 1..Len(s) : s[k] = i THEN CHOOSE k \in 1..Len(s) : s[k] = i ELSE 0

(* a filter that still admits a row at the instant it becomes invalid *)
build_temporal_filter_inclusive(row, at_time) ==
    /\ row.expired_at = NULL
    /\ row.valid_at = NULL \/ row.valid_at <= at_time
    /\ row.invalid_at = NULL \/ row.invalid_at >= at_time

(* build_temporal_filter(at_time): the three conditions of the point-in-time
   query *)
build_temporal_filter(row, at_time) ==
    /\ row.expired_at = NULL
    /\ row.valid_at = NULL \/ row.valid_at <= at_time
    /\ row.invalid_at = NULL \/ row.invalid_at > at_time

(* a query that forgets the org isolation *)
org_filter_open(row, org) == TRUE

org_filter(row, org) == row.org_id = org \/ row.is_public

(* the shared conditions without the soft-delete filter *)
SearchFilterKeepsDeleted(row, org, category, at_time) ==
    /\ org_filter(row, org)
    /\ category # NoCategory => row.category = category
    /\ at_time # NULL => build_temporal_filter(row, at_time)

(* the WHERE conditions both CTEs share; the temporal conditions are added
   only when at_time is given *)
SearchFilter(row, org, category, at_time) ==
    /\ org_filter(row, org)
    /\ row.deleted_at = NULL
    /\ category # NoCategory => row.category = category
    /\ at_time # NULL => build_temporal_filter(row, at_time)

(* to_tsvector(content) @@ plainto_tsquery(query), and ts_rank *)
TsMatch(query, content) == TokenSet(query) \subseteq TokenSet(content)

TsRank(query, content) ==
    Cardinality({ k \in 1..Len(content) : content[k] \in TokenSet(query) })

(* CTE 1: row_number() over ascending cosine distance, LIMIT 20 *)
VectorOrders(tbl, org, query, category, at_time) ==
    LET V == { i \in Ids(tbl) :
                 SearchFilter(tbl[i], org, category, at_time) /\ tbl[i].embedding }
    IN  { Take(s, CteLimit) : s \in SortedByDistance(tbl, V, query) }

(* CTE 2: row_number() over descending ts_rank, LIMIT 20 *)
TextOrders(tbl, org, query, category, at_time) ==
    LET T == { i \in Ids(tbl) :
                 /\ SearchFilter(tbl[i], org, category, at_time)
                 /\ TsMatch(query, tbl[i].content) }
    IN  { Take(s, CteLimit) :
            s \in { p \in Orderings(T) :
                      \A i, j \in 1..Len(p) :
                          i < j => TsRank(query, tbl[p[i]].content)
                                     >= TsRank(query, tbl[p[j]].content) } }

(* SUM(1.0 / (60 + rank)) over the CTEs that hold the row, as a fraction *)
RrfScore(rv, rt) ==
    IF rv > 0 /\ rt > 0
    THEN [num |-> 2 * RrfK + rv + rt, den |-> (RrfK + rv) * (RrfK + rt)]
    ELSE IF rv > 0 THEN [num |-> 1, den |-> RrfK + rv]
    ELSE [num |-> 1, den |-> RrfK + rt]

(* rrf_score * (0.7 + 0.3 * quality_score) in thousandths, quality_score
   being in hundredths *)
FinalScore(tbl, vorder, torder, i) ==
    LET rrf == RrfScore(RankOf(vorder, i), RankOf(torder, i))
    IN  [num |-> rrf.num * (700 + 3 * tbl[i].quality_score), den |-> rrf.den]

ScoreLess(a, b) == a.num * b.den < b.num * a.den

(* ORDER BY final_score DESC over the rows either CTE returned *)
FinalOrders(tbl, vorder, torder) ==
    LET R == { vorder[k] : k \in 1..Len(vorder) } \cup
             { torder[k] : k \in 1..Len(torder) }
    IN  { p \in Orderings(R) :
            \A i, j \in 1..Len(p) :
                i < j => ~ScoreLess(FinalScore(tbl, vorder, torder, p[i]),
                                    FinalScore(tbl, vorder, torder, p[j])) }

(* ACL-05: the rows of the page whose content_hash no earlier row has *)
DedupByHash(tbl, rows) ==
    LET keep == { k \in 1..Len(rows) :
                    \A j \in 1..(k - 1) :
                        tbl[rows[j]].content_hash # tbl[rows[k]].content_hash }
        F[k \in 0..Len(rows)] ==
            IF k = 0 THEN <<>>
            ELSE IF k \in keep THEN Append(F[k - 1], rows[k]) ELSE F[k - 1]
    IN  F[Len(rows)]

(* limit = min(limit, settings.max_search_limit) *)
min_limit(limit_arg) ==
    IF limit_arg < MaxSearchLimit THEN limit_arg ELSE MaxSearchLimit

(* _search for the database's order forder of the fused rows *)
search_page(tbl, limit, offset, forder) ==
    LET last == IF offset + limit < Len(forder) THEN offset + limit ELSE Len(forder)
        rows == SubSeq(forder, offset + 1, last)
        deduped == DedupByHash(tbl, rows)
        reduced == Len(forder) - (Len(rows) - Len(deduped))
        total_count == IF reduced > 0 THEN reduced ELSE 0
        has_more == offset + limit < total_count
    IN  IF limit < 0 \/ offset < 0
        THEN \* the database rejects a negative LIMIT or OFFSET
             ErrorResp("search_knowledge", "db_error")
        ELSE [op |-> "search_knowledge", isError |-> FALSE,
              results |-> deduped, total_found |-> total_count,
              next_cursor |-> IF has_more THEN encode_cursor(offset + limit)
                              ELSE NoCursor]

search(tbl, limit_arg, cursor, forder) ==
    search_page(tbl, min_limit(limit_arg),
                IF cursor # NoCursor THEN decode_cursor(cursor) ELSE 0, forder)

(* the retrievals recorded so far, over all rows *)
Recorded(tbl) ==
    LET F[k \in 0..Len(tbl)] ==
            IF k = 0 THEN 0 ELSE F[k - 1] + tbl[k].retrieval_count
    IN  F[Len(tbl)]

(* the recording tasks in flight that hold id *)
InFlight(cs, id) ==
    Cardinality({ s \in DOMAIN cs :
                    /\ cs[s].pc = "record_retrieval_signals"
                    /\ \E k \in 1..Len(cs[s].item_ids) : cs[s].item_ids[k] = id })

(* asyncio.create_task(_record_retrieval_signals(returned_ids)): the task
   waits in slot until the event loop runs it; no task for an empty page *)
create_task(cs, slot, returned_ids) ==
    IF returned_ids = <<>> THEN cs
    ELSE [cs EXCEPT ![slot] = [pc |-> "record_retrieval_signals",
                               item_ids |-> returned_ids]]

SearchKnowledge(slot, h, query, category, limit, cursor, at_time) ==
    /\ UNCHANGED <<fabric_vars, last_run, published, items, pending, npending, lsh, burst, now, signals>>
    /\ IF h \notin AuthContexts THEN
           /\ resp' = ErrorResp("search_knowledge", "auth")
           /\ UNCHANGED calls
       ELSE IF category \notin KnowledgeCategory \cup {NoCategory} THEN
           /\ resp' = ErrorResp("search_knowledge", "bad_category")
           /\ UNCHANGED calls
       ELSE
           \E vorder \in VectorOrders(items, h.org_id, query, category, at_time) :
           \E torder \in TextOrders(items, h.org_id, query, category, at_time) :
           \E forder \in FinalOrders(items, vorder, torder) :
               LET out == search(items, limit, cursor, forder) IN
               IF out.isError THEN
                   /\ resp' = out
                   /\ UNCHANGED calls
               ELSE
                   /\ out.results # <<>> =>
                          /\ calls[slot] = Idle
                          /\ Recorded(items) < MaxRetrievals
                   /\ resp' = out
                   /\ calls' = create_task(calls, slot, out.results)
    /\ req' = [op |-> "search_knowledge", h |-> h, query |-> query,
               category |-> category, limit |-> limit, cursor |-> cursor,
               at_time |-> at_time]

(* the same task raising the counter of its first id only *)
record_retrieval_signals_first(tbl, item_ids) ==
    [i \in Ids(tbl) |->
        IF i = item_ids[1]
        THEN [tbl[i] EXCEPT !.retrieval_count = @ + 1]
        ELSE tbl[i]]

(* _record_retrieval_signals: one UPDATE ... SET retrieval_count =
   retrieval_count + 1 WHERE id IN (item_ids), evaluated by the database on
   the rows as they are when the statement runs *)
record_retrieval_signals(tbl, item_ids) ==
    [i \in Ids(tbl) |->
        IF \E k \in 1..Len(item_ids) : item_ids[k] = i
        THEN [tbl[i] EXCEPT !.retrieval_count = @ + 1]
        ELSE tbl[i]]

RecordRetrievalSignals(slot) ==
    /\ calls[slot].pc = "record_retrieval_signals"
    /\ items' = record_retrieval_signals(items, calls[slot].item_ids)
    /\ calls' = [calls EXCEPT ![slot] = Idle]
    /\ req' = NoReq
    /\ resp' = NoResp
    /\ UNCHANGED <<fabric_vars, last_run, published, pending, npending, lsh, burst, now, signals>>

(* _fetch_by_id: the row with that id, of the caller's org or public, not
   soft-deleted; the same "not found" for every id it does not select *)
ValidUuid(id) == id >= 1

NotFound(op, id) == [op |-> op, isError |-> TRUE, text |-> "not found", id |-> id]

(* a fetch that tells a hidden row from a missing one *)
fetch_by_id_forbidden(tbl, id, org) ==
    IF ~ValidUuid(id) THEN ErrorResp("fetch_by_id", "invalid_id")
    ELSE IF id \in Ids(tbl) /\ ~(org_filter(tbl[id], org) /\ tbl[id].deleted_at = NULL)
    THEN [op |-> "fetch_by_id", isError |-> TRUE, text |-> <<"forbidden", id>>]
    ELSE IF id \in Ids(tbl)
    THEN [op |-> "fetch_by_id", isError |-> FALSE, id |-> id,
          content |-> tbl[id].content, category |-> tbl[id].category,
          confidence |-> tbl[id].confidence, org_attribution |-> tbl[id].org_id,
          contributed_at |-> tbl[id].contributed_at,
          integrity_verified |->
              verify_content_hash(tbl[id].content, tbl[id].content_hash)]
    ELSE NotFound("fetch_by_id", id)

fetch_by_id(tbl, id, org) ==
    IF ~ValidUuid(id) THEN ErrorResp("fetch_by_id", "invalid_id")
    ELSE IF \E i \in Ids(tbl) :
                i = id /\ org_filter(tbl[i], org) /\ tbl[i].deleted_at = NULL
    THEN [op |-> "fetch_by_id", isError |-> FALSE, id |-> id,
          content |-> tbl[id].content, category |-> tbl[id].category,
          confidence |-> tbl[id].confidence, org_attribution |-> tbl[id].org_id,
          contributed_at |-> tbl[id].contributed_at,
          integrity_verified |->
              verify_content_hash(tbl[id].content, tbl[id].content_hash)]
    ELSE NotFound("fetch_by_id", id)

FetchById(h, id) ==
    /\ resp' = IF h \notin AuthContexts THEN ErrorResp("fetch_by_id", "auth")
               ELSE fetch_by_id(items, id, h.org_id)
    /\ req' = [op |-> "fetch_by_id", h |-> h, id |-> id]
    /\ UNCHANGED <<fabric_vars, last_run, published, items, pending, npending, lsh, burst, now, signals, calls>>

----------------------------------------------------------------------------
(* publish_knowledge (server/tools/publish_knowledge.py) *)

publish_knowledge(tbl, h, id, is_public) ==
    IF h \notin AuthContexts THEN
        [items |-> tbl, resp |-> ErrorResp("publish_knowledge", "auth")]
    ELSE IF ~ValidUuid(id) THEN
        [items |-> tbl, resp |-> ErrorResp("publish_knowledge", "invalid_id")]
    ELSE IF \E i \in Ids(tbl) :
                i = id /\ tbl[i].org_id = h.org_id /\ tbl[i].deleted_at = NULL
    THEN [items |-> [tbl EXCEPT ![id].is_public = is_public],
          resp |-> [op |-> "publish_knowledge", isError |-> FALSE, id |-> id,
                    is_public |-> is_public]]
    ELSE [items |-> tbl, resp |-> NotFound("publish_knowledge", id)]

PublishKnowledge(h, id, is_public) ==
    LET out == publish_knowledge(items, h, id, is_public)
    IN  /\ items' = out.items
        /\ resp' = out.resp
        /\ req' = [op |-> "publish_knowledge", h |-> h, id |-> id,
                   is_public |-> is_public]
        /\ UNCHANGED <<fabric_vars, last_run, published, pending, npending, lsh, burst, now, signals, calls>>

----------------------------------------------------------------------------
(* delete_knowledge (server/tools/delete_knowledge.py) *)

delete_knowledge(tbl, h, id, t) ==
    IF h \notin AuthContexts THEN
        [items |-> tbl, resp |-> ErrorResp("delete_knowledge", "auth")]
    ELSE IF ~ValidUuid(id) THEN
        [items |-> tbl, resp |-> ErrorResp("delete_knowledge", "invalid_id")]
    ELSE IF \E i \in Ids(tbl) :
                /\ i = id
                /\ tbl[i].org_id = h.org_id
                /\ tbl[i].source_agent_id = h.agent_id
                /\ tbl[i].deleted_at = NULL
    THEN [items |-> [tbl EXCEPT ![id].deleted_at = t],
          resp |-> [op |-> "delete_knowledge", isError |-> FALSE, id |-> id,
                    status |-> "deleted"]]
    ELSE [items |-> tbl, resp |-> NotFound("delete_knowledge", id)]

DeleteKnowledge(h, id) ==
    LET out == delete_knowledge(items, h, id, now)
    IN  /\ items' = out.items
        /\ resp' = out.resp
        /\ req' = [op |-> "delete_knowledge", h |-> h, id |-> id]
        /\ UNCHANGED <<fabric_vars, last_run, published, pending, npending, lsh, burst, now, signals, calls>>

----------------------------------------------------------------------------
(* list_knowledge (server/tools/list_knowledge.py) *)

MaxListLimit == 100

(* ORDER BY contributed_at DESC over a set of row ids of one table *)
NewestFirst(S, at) ==
    { p \in Orderings(S) : \A i, j \in 1..Len(p) : i < j => at[p[i]] >= at[p[j]] }

list_page(status, limit, offset, pending_order, approved_order) ==
    LET pending_items == IF status \in {"pending", "all"}
                         THEN [k \in 1..Len(pending_order) |->
                                  <<"pending", pending_order[k]>>]
                         ELSE <<>>
        approved_items == IF status \in {"approved", "all"}
                          THEN [k \in 1..Len(approved_order) |->
                                   <<"approved", approved_order[k]>>]
                          ELSE <<>>
        all_items == pending_items \o approved_items
        total_count == Len(all_items)
        last == IF offset + limit < total_count THEN offset + limit
                ELSE total_count
        has_more == offset + limit < total_count
    IN  [op |-> "list_knowledge", isError |-> FALSE,
         contributions |-> SubSeq(all_items, offset + 1, last),
         total_count |-> total_count,
         next_cursor |-> IF has_more THEN encode_cursor(offset + limit)
                         ELSE NoCursor]

(* limit = max(1, min(limit, 100)) *)
clamp_limit(limit_arg) ==
    IF limit_arg < 1 THEN 1
    ELSE IF limit_arg < MaxListLimit THEN limit_arg ELSE MaxListLimit

list_knowledge(status, limit_arg, cursor, pending_order, approved_order) ==
    list_page(status, clamp_limit(limit_arg),
              IF cursor # NoCursor THEN decode_cursor(cursor) ELSE 0,
              pending_order, approved_order)

ListKnowledge(h, status, category, limit, cursor) ==
    /\ UNCHANGED <<fabric_vars, last_run, published, items, pending, npending, lsh, burst, now, signals, calls>>
    /\ req' = [op |-> "list_knowledge", h |-> h, status |-> status,
               category |-> category, limit |-> limit, cursor |-> cursor]
    /\ IF h \notin AuthContexts THEN
           resp' = ErrorResp("list_knowledge", "auth")
       ELSE IF status \notin {"pending", "approved", "all"} THEN
           resp' = ErrorResp("list_knowledge", "bad_status")
       ELSE IF category \notin KnowledgeCategory \cup {NoCategory} THEN
           resp' = ErrorResp("list_knowledge", "bad_category")
       ELSE
           LET P == { c.id : c \in { c \in pending :
                          /\ c.org_id = h.org_id
                          /\ c.source_agent_id = h.agent_id
                          /\ category # NoCategory => c.category = category } }
               A == { i \in Ids(items) :
                          /\ items[i].org_id = h.org_id
                          /\ items[i].source_agent_id = h.agent_id
                          /\ items[i].deleted_at = NULL
                          /\ category # NoCategory => items[i].category = category }
               pat == [id \in P |-> (CHOOSE c \in pending : c.id = id).contributed_at]
               aat == [id \in A |-> items[id].contributed_at]
           IN  \E pending_order \in NewestFirst(P, pat) :
               \E approved_order \in NewestFirst(A, aat) :
                   resp' = list_knowledge(status, limit, cursor, pending_order,
                                          approved_order)

----------------------------------------------------------------------------
(* Sleep-time distillation (quality/distillation.py): the threshold check and
   the duplicate merge of run_distillation *)

(* settings.distillation_volume_threshold and
   settings.distillation_conflict_threshold, as configured for this
   deployment (the defaults are 50 and 5) *)
DistillationVolumeThreshold == 1
DistillationConflictThreshold == 1

(* step a: pending rows, and contradiction signals since the last run *)
below_threshold(pend, sigs) ==
    /\ Cardinality(pend) < DistillationVolumeThreshold
    /\ Cardinality({ i \in DOMAIN sigs :
                       sigs[i].signal_type = "contradiction" })
           < DistillationConflictThreshold

(* the groups of the duplicate query: current, non-deleted rows by
   (content_hash, org_id), more than one row in a group *)
duplicate_groups(tbl) ==
    LET active == { i \in Ids(tbl) :
                      tbl[i].expired_at = NULL /\ tbl[i].deleted_at = NULL }
        group(i) == { j \in active :
                        /\ tbl[j].content_hash = tbl[i].content_hash
                        /\ tbl[j].org_id = tbl[i].org_id }
    IN  { group(i) : i \in { i \in active : Cardinality(group(i)) > 1 } }

(* array_agg(id ORDER BY quality_score ASC) *)
ByQualityAsc(tbl, group) ==
    { ids \in Orderings(group) :
        \A a, b \in 1..Len(ids) :
            a < b => tbl[ids[a]].quality_score <= tbl[ids[b]].quality_score }

(* array_agg(id ORDER BY quality_score DESC): the orders a group can come in *)
ByQualityDesc(tbl, group) ==
    { ids \in Orderings(group) :
        \A a, b \in 1..Len(ids) :
            a < b => tbl[ids[a]].quality_score >= tbl[ids[b]].quality_score }

(* step b with the groups in the orders `ids`: the first id of a group is
   canonical and gets the others as provenance links, the others expire *)
merge_duplicates(tbl, ids, t) ==
    [i \in DOMAIN tbl |->
        IF \E g \in DOMAIN ids : i = ids[g][1]
        THEN LET g == CHOOSE g \in DOMAIN ids : i = ids[g][1]
             IN  [tbl[i] EXCEPT !.provenance_links = @ \o Tail(ids[g])]
        ELSE IF \E g \in DOMAIN ids : i \in g
        THEN [tbl[i] EXCEPT !.expired_at = t]
        ELSE tbl[i]]

(* run_distillation up to the commit of the merge *)
DistillMerge ==
    /\ IF below_threshold(pending, signals)
       THEN /\ items' = items
            /\ resp' = [op |-> "run_distillation", isError |-> FALSE,
                        status |-> "skipped"]
       ELSE \E ids \in { f \in [duplicate_groups(items) -> UNION
                                    { ByQualityDesc(items, g) :
                                        g \in duplicate_groups(items) }] :
                           \A g \in duplicate_groups(items) :
                               f[g] \in ByQualityDesc(items, g) } :
                /\ items' = merge_duplicates(items, ids, now)
                /\ resp' = [op |-> "run_distillation", isError |-> FALSE,
                            status |-> "merged"]
    /\ req' = [op |-> "run_distillation"]
    /\ UNCHANGED <<fabric_vars, last_run, published, pending, npending, lsh,
                   burst, signals, calls, now>>

----------------------------------------------------------------------------
(* The SSE feed: GET /stream/feed over LISTEN/NOTIFY *)

MaxSubscribers == 2
MaxNotifications == 2
MaxPings == 1

(* json.dumps of a dict: its key/value pairs in insertion order *)
json_dumps(d, keys) == [i \in 1..Len(keys) |-> <<keys[i], d[keys[i]]>>]

(* json.loads of such a text: the dict again, the last pair of a key wins *)
json_loads(text) ==
    LET ks == { text[i][1] : i \in 1..Len(text) }
        last(k) == CHOOSE i \in 1..Len(text) :
                       /\ text[i][1] = k
                       /\ \A j \in 1..Len(text) : text[j][1] = k => j <= i
    IN  [k \in ks |-> text[last(k)][2]]

(* dict.get(key, default) *)
Get(d, key, default) == IF key \in DOMAIN d THEN d[key] ELSE default

ItemDataKeys == <<"id", "is_public", "org_id", "category", "title">>

Closed == [pc |-> "closed"]

(* pg_notify('knowledge_published', payload), committed with the session *)
notify_knowledge_published(channel, payload) == channel \cup {payload}

(* _listener on every connection that listens: json.loads, queue.put_nowait *)
listener(subs, payload_str) ==
    [s \in DOMAIN subs |->
        IF subs[s].pc = "listening"
        THEN [subs[s] EXCEPT !.queue = Append(@, json_loads(payload_str)),
                             !.heard = Append(@, json_loads(payload_str))]
        ELSE subs[s]]

(* the routing of one queued item: the events event_generator yields for it,
   with or without the comparison of org ids *)
route_all(item, org_id) ==
    LET is_public == Get(item, "is_public", FALSE)
    IN  IF is_public = TRUE THEN <<[event |-> "public", data |-> item]>>
        ELSE <<[event |-> "private", data |-> item]>>

route(item, org_id) ==
    LET is_public == Get(item, "is_public", FALSE)
        item_org_id == Get(item, "org_id", "")
    IN  IF is_public = TRUE THEN <<[event |-> "public", data |-> item]>>
        ELSE IF item_org_id = org_id
             THEN <<[event |-> "private", data |-> item]>>
             ELSE <<>>

(* stream_knowledge_feed up to add_listener: the caller's key gives org_id *)
StreamKnowledgeFeed(s, org_id) ==
    /\ subscribers[s].pc = "closed"
    /\ subscribers' = [subscribers EXCEPT ![s] =
           [pc |-> "listening", org_id |-> org_id, queue |-> <<>>,
            heard |-> <<>>, sent |-> <<>>, pings |-> 0]]
    /\ req' = [op |-> "stream_knowledge_feed", org_id |-> org_id]
    /\ resp' = NoResp
    /\ UNCHANGED <<items, pending, npending, lsh, burst, signals, calls,
                   last_run, published, webhook_endpoints, celery, casbin, now>>

(* one turn of the loop of event_generator with an item in the queue *)
EventGenerator(s) ==
    /\ subscribers[s].pc = "listening"
    /\ subscribers[s].queue # <<>>
    /\ subscribers' = [subscribers EXCEPT ![s] =
           [@ EXCEPT !.queue = Tail(@),
                     !.sent = @ \o route(Head(subscribers[s].queue),
                                         subscribers[s].org_id)]]
    /\ req' = [op |-> "event_generator", slot |-> s]
    /\ resp' = NoResp
    /\ UNCHANGED <<items, pending, npending, lsh, burst, signals, calls,
                   last_run, published, webhook_endpoints, celery, casbin, now>>

(* one turn of the loop with the queue empty for 30 seconds *)
Ping(s) ==
    /\ subscribers[s].pc = "listening"
    /\ subscribers[s].queue = <<>>
    /\ subscribers[s].pings < MaxPings
    /\ subscribers' = [subscribers EXCEPT ![s] =
           [@ EXCEPT !.pings = @ + 1,
                     !.sent = Append(@, [event |-> "ping", data |-> ""])]]
    /\ req' = [op |-> "event_generator", slot |-> s]
    /\ resp' = NoResp
    /\ UNCHANGED <<items, pending, npending, lsh, burst, signals, calls,
                   last_run, published, webhook_endpoints, celery, casbin, now>>

(* the client goes away: CancelledError, remove_listener, close *)
Disconnect(s) ==
    /\ subscribers[s].pc = "listening"
    /\ subscribers' = [subscribers EXCEPT ![s] = Closed]
    /\ req' = [op |-> "disconnect", slot |-> s]
    /\ resp' = NoResp
    /\ UNCHANGED <<items, pending, npending, lsh, burst, signals, calls,
                   last_run, published, webhook_endpoints, celery, casbin, now>>

(* a session runs notify_knowledge_published(session, item_data) and commits *)
Notify(data) ==
    /\ data \notin published
    /\ Cardinality(published) < MaxNotifications
    /\ published' = notify_knowledge_published(published, data)
    /\ subscribers' = listener(subscribers,
                               json_dumps(data, ItemDataKeys))
    /\ req' = [op |-> "notify_knowledge_published", item_data |-> data]
    /\ resp' = NoResp
    /\ UNCHANGED <<items, pending, npending, lsh, burst, signals, calls,
                   last_run, webhook_endpoints, celery, casbin, now>>

----------------------------------------------------------------------------
(* Webhooks (webhooks/tasks.py): dispatch_webhooks fans an event out to the
   endpoints of an org as deliver_webhook tasks; a Celery worker runs them *)

max_retries == 3

EventTypes == {"knowledge.approved", "knowledge.rejected"}

(* values of the JSONB column event_types: SQL NULL, a JSON object with a
   list under "types", or a JSON array of event types *)
JsonNull == [shape |-> "null", types |-> {}]
JsonObject(types) == [shape |-> "object", types |-> types]
JsonArray(types) == [shape |-> "array", types |-> types]

(* truth value Python gives the column: None, {} and [] are false *)
Truthy(event_types) ==
    \/ event_types.shape = "object"
    \/ event_types.shape = "array" /\ event_types.types # {}

(* endpoint.event_types.get raises AttributeError on a list *)
Raises(endpoint) ==
    Truthy(endpoint.event_types) /\ endpoint.event_types.shape = "array"

(* the `continue` of the loop: a non-empty list without the event *)
Skipped(endpoint, event) ==
    /\ Truthy(endpoint.event_types)
    /\ endpoint.event_types.types # {}
    /\ event \notin endpoint.event_types.types

(* deliver_webhook.delay(url, payload): a task message for the broker *)
delay(url, payload) ==
    [url |-> url, payload |-> payload, retries |-> 0, posts |-> 0,
     state |-> "PENDING"]

(* the rows the query of dispatch_webhooks selects, with and without its
   filter on the org *)
select_endpoints_any_org(endpoints, org_id) ==
    { e \in endpoints : e.is_active }

select_endpoints(endpoints, org_id) ==
    { e \in endpoints : e.org_id = org_id /\ e.is_active }

(* dispatch_webhooks over the selected rows in the order the query returned
   them: the loop ends at the first row that raises *)
dispatch_webhooks(queue, rows, org_id, event, knowledge_item_id, category, t) ==
    LET payload == [event |-> event, knowledge_item_id |-> knowledge_item_id,
                    org_id |-> org_id, category |-> category, timestamp |-> t]
        raising == { i \in 1..Len(rows) : Raises(rows[i]) }
        stop == IF raising = {} THEN Len(rows) + 1
                ELSE CHOOSE i \in raising : \A j \in raising : i <= j
        matched == SelectSeq(SubSeq(rows, 1, stop - 1),
                             LAMBDA e : ~Skipped(e, event))
    IN  [celery |-> queue \o [i \in 1..Len(matched) |->
                                 delay(matched[i].url, payload)],
         dispatched |-> Len(matched),
         raised |-> raising # {}]

(* the orders in which the query can return the endpoints of an org *)
EndpointOrders(endpoints, org_id) ==
    Orderings(select_endpoints(endpoints, org_id))

(* one run of deliver_webhook by a worker: the POST and its result; on any
   exception self.retry sends the task again unless max_retries is used up *)
HttpResults == {"2xx", "non_2xx", "network_error", "timeout"}

(* a retry that ignores max_retries *)
retry_forever(task) == [task EXCEPT !.retries = @ + 1, !.state = "RETRY"]

(* self.retry: refused once retries + 1 exceeds max_retries *)
retry(task) ==
    IF task.retries + 1 > max_retries
    THEN [task EXCEPT !.state = "FAILURE"]
    ELSE [task EXCEPT !.retries = @ + 1, !.state = "RETRY"]

deliver_webhook(task, result) ==
    LET posted == [task EXCEPT !.posts = @ + 1]
    IN  IF result = "2xx" THEN [posted EXCEPT !.state = "SUCCESS"]
        ELSE retry(posted)

DeliverWebhook(i, result) ==
    /\ i \in DOMAIN celery
    /\ celery[i].state \in {"PENDING", "RETRY"}
    /\ celery' = [celery EXCEPT ![i] = deliver_webhook(@, result)]
    /\ req' = [op |-> "deliver_webhook", task |-> i]
    /\ resp' = [op |-> "deliver_webhook", isError |-> result # "2xx"]
    /\ UNCHANGED <<items, pending, npending, lsh, burst, signals, calls,
                   last_run, published, subscribers, webhook_endpoints,
                   casbin, now>>

----------------------------------------------------------------------------
(* RBAC (security/rbac.py) and the manage_roles tool (admin_tools.py).
   A policy rule is <<subject, domain, obj, action>>, a role binding is
   <<user, role, domain>>, an obj is <<level, name>>. *)

MaxPolicies == 8
MaxBindings == 3

NoRules == [p |-> {}, g |-> {}]

None == ""
NoObj == <<>>

namespace_obj(org_id) == <<"namespace", org_id>>

(* the matcher of the policy model: the subject or one of its roles in the
   domain, the same domain and obj, the same action or the wildcard *)
enforce(rules, subject, domain, obj, action) ==
    \E r \in rules.p :
        /\ r[1] = subject \/ <<subject, r[1], domain>> \in rules.g
        /\ r[2] = domain
        /\ r[3] = obj
        /\ r[4] = action \/ r[4] = "*"

add_policy(rules, subject, domain, obj, action) ==
    [rules EXCEPT !.p = @ \cup {<<subject, domain, obj, action>>}]

remove_policy(rules, subject, domain, obj, action) ==
    [rules EXCEPT !.p = @ \ {<<subject, domain, obj, action>>}]

add_role_for_user(rules, user, role, domain) ==
    [rules EXCEPT !.g = @ \cup {<<user, role, domain>>}]

get_roles_for_user(rules, user, domain) ==
    { b[2] : b \in { b \in rules.g : b[1] = user /\ b[3] = domain } }

seed_default_policies(rules, org_id) ==
    add_policy(add_policy(add_policy(rules,
        "admin", org_id, namespace_obj(org_id), "*"),
        "contributor", org_id, namespace_obj(org_id), "read"),
        "contributor", org_id, namespace_obj(org_id), "write")

RolesError(text) == [op |-> "manage_roles", isError |-> TRUE, text |-> text]

(* Step 2 of manage_roles, and the same step letting every caller through *)
is_admin_always(rules, auth) == TRUE

is_admin(rules, auth) ==
    enforce(rules, auth.agent_id, auth.org_id, namespace_obj(auth.org_id), "*")

(* manage_roles: the rules it leaves and the response it returns *)
manage_roles(rules, auth, action, agent_id, role, obj, permission) ==
    IF auth \notin AuthContexts THEN
        [casbin |-> rules, resp |-> RolesError("auth")]
    ELSE IF ~is_admin(rules, auth) THEN
        [casbin |-> rules, resp |-> RolesError("not_admin")]
    ELSE IF action = "assign_role" THEN
        IF role = None THEN
            [casbin |-> rules, resp |-> RolesError("role_required")]
        ELSE
            [casbin |-> add_role_for_user(rules, agent_id, role, auth.org_id),
             resp |-> [op |-> "manage_roles", isError |-> FALSE,
                       action |-> action, domain |-> auth.org_id]]
    ELSE IF action = "get_roles" THEN
        [casbin |-> rules,
         resp |-> [op |-> "manage_roles", isError |-> FALSE,
                   action |-> action, domain |-> auth.org_id,
                   roles |-> get_roles_for_user(rules, agent_id, auth.org_id)]]
    ELSE IF action \in {"add_permission", "remove_permission"} THEN
        IF obj = NoObj THEN
            [casbin |-> rules, resp |-> RolesError("obj_required")]
        ELSE IF permission = None THEN
            [casbin |-> rules, resp |-> RolesError("permission_required")]
        ELSE
            [casbin |-> IF action = "add_permission"
                        THEN add_policy(rules, agent_id, auth.org_id, obj,
                                        permission)
                        ELSE remove_policy(rules, agent_id, auth.org_id, obj,
                                           permission),
             resp |-> [op |-> "manage_roles", isError |-> FALSE,
                       action |-> action, domain |-> auth.org_id]]
    ELSE
        [casbin |-> rules, resp |-> RolesError("unknown_action")]

ManageRoles(h, action, agent_id, role, obj, permission) ==
    LET out == manage_roles(casbin, h, action, agent_id, role, obj, permission)
    IN  /\ Cardinality(out.casbin.p) <= MaxPolicies
        /\ Cardinality(out.casbin.g) <= MaxBindings
        /\ casbin' = out.casbin
        /\ req' = [op |-> "manage_roles", auth |-> h, action |-> action,
                   agent_id |-> agent_id, role |-> role, obj |-> obj,
                   permission |-> permission]
        /\ resp' = out.resp
        /\ UNCHANGED <<items, pending, npending, lsh, burst, signals, calls,
                       last_run, published, subscribers, webhook_endpoints,
                       celery, now>>

----------------------------------------------------------------------------
(* Review of the pending queue: the CLI (cli/client.py) and the REST
   endpoints (api/routes/contributions.py) *)

HasPending(pend, id) == \E c \in pend : c.id = id

PendingRow(pend, id) == CHOOSE c \in pend : c.id = id

(* the KnowledgeItem both approval paths build from a pending row; the
   column default gives quality_score where the CLI leaves it out *)
ItemFromContributionNow(c, category, is_public, approved_at) ==
    NewItem([org_id |-> c.org_id, agent_id |-> c.source_agent_id],
            c.content, c.content_hash, category, c.confidence, is_public,
            DefaultQualityScore, TRUE, approved_at, approved_at, NULL)

ItemFromContribution(c, category, is_public, approved_at) ==
    NewItem([org_id |-> c.org_id, agent_id |-> c.source_agent_id],
            c.content, c.content_hash, category, c.confidence, is_public,
            DefaultQualityScore, TRUE, c.contributed_at, approved_at, NULL)

Approved(id, item_id) ==
    [op |-> "approve_contribution", isError |-> FALSE, status |-> "approved",
     contribution_id |-> id, item_id |-> item_id]

Rejected(id) ==
    [op |-> "reject_contribution", isError |-> FALSE, status |-> "rejected",
     contribution_id |-> id]

(* cli approve_contribution: one session gets the row, adds the item,
   deletes the row and commits *)
approve_contribution(tbl, pend, id, is_public, category_override, t) ==
    IF ~HasPending(pend, id) THEN
        [items |-> tbl, pending |-> pend,
         resp |-> NotFound("approve_contribution", id)]
    ELSE LET c == PendingRow(pend, id)
             final_category == IF category_override # NoCategory
                               THEN category_override ELSE c.category
         IN  IF UniqueViolation(tbl, c.content_hash, c.org_id) THEN
                 [items |-> tbl, pending |-> pend,
                  resp |-> ErrorResp("approve_contribution", "integrity_error")]
             ELSE
                 [items |-> Append(tbl, ItemFromContribution(c, final_category,
                                                             is_public, t)),
                  pending |-> pend \ {c},
                  resp |-> Approved(id, Len(tbl) + 1)]

CliApprove(id, is_public, category_override) ==
    LET out == approve_contribution(items, pending, id, is_public,
                                    category_override, now)
    IN  /\ items' = out.items
        /\ pending' = out.pending
        /\ resp' = out.resp
        /\ IF out.resp.isError THEN celery' = celery
           ELSE LET item == out.items[out.resp.item_id]
                IN  \E rows \in EndpointOrders(webhook_endpoints, item.org_id) :
                        celery' = dispatch_webhooks(
                                      celery, rows, item.org_id,
                                      "knowledge.approved", out.resp.item_id,
                                      item.category, now).celery
        /\ req' = [op |-> "approve_contribution", via |-> "cli", id |-> id]
        /\ UNCHANGED <<subscribers, webhook_endpoints, casbin, last_run,
                       published, npending, lsh, burst, signals, calls, now>>

(* cli reject_contribution *)
CliReject(id) ==
    /\ pending' = { c \in pending : c.id # id }
    /\ resp' = Rejected(id)
    /\ req' = [op |-> "reject_contribution", via |-> "cli", id |-> id]
    /\ UNCHANGED <<fabric_vars, last_run, published, items, npending, lsh, burst, signals, calls, now>>

(* REST endpoints: the first session selects the row by id and org; the
   approve handler then builds the item, reading the clock, and awaits the
   second session, which writes *)
ReviewRead(slot, kind, org, id) ==
    /\ calls[slot] = Idle
    /\ IF \E c \in pending : c.id = id /\ c.org_id = org
       THEN /\ calls' = [calls EXCEPT ![slot] =
                           [pc |-> kind, org_id |-> org, id |-> id,
                            contribution |-> PendingRow(pending, id),
                            now |-> now]]
            /\ req' = NoReq
            /\ resp' = NoResp
       ELSE /\ calls' = calls
            /\ req' = [op |-> kind, via |-> "rest", id |-> id]
            /\ resp' = NotFound(kind, id)
    /\ UNCHANGED <<fabric_vars, last_run, published, items, pending, npending, lsh, burst, signals, now>>

(* second session of approve_contribution_endpoint: add the item, delete
   the pending row if it is still there, commit *)
approve_write(tbl, pend, c, approved_at) ==
    IF UniqueViolation(tbl, c.content_hash, c.org_id) THEN
        [items |-> tbl, pending |-> pend,
         resp |-> ErrorResp("approve_contribution", "integrity_error")]
    ELSE
        [items |-> Append(tbl, ItemFromContribution(c, c.category, FALSE,
                                                    approved_at)),
         pending |-> { p \in pend : p.id # c.id },
         resp |-> Approved(c.id, Len(tbl) + 1)]

(* contribution.content[:80] + "..." when it is longer, cut between words *)
Title(content) ==
    IF CharLen(content) <= 80 THEN content
    ELSE LET fits == { n \in 0..Len(content) : CharLen(SubSeq(content, 1, n)) <= 80 }
         IN  Append(SubSeq(content, 1, CHOOSE n \in fits : \A k \in fits : k <= n),
                    "...")

(* item_data, its id filled in after the commit *)
item_data(c, item_id) ==
    [id |-> item_id, is_public |-> FALSE, org_id |-> c.org_id,
     category |-> c.category, title |-> Title(c.content)]

ApproveWrite(slot) ==
    /\ calls[slot].pc = "approve_contribution"
    /\ LET out == approve_write(items, pending, calls[slot].contribution,
                            calls[slot].now)
       IN  /\ items' = out.items
           /\ pending' = out.pending
           /\ resp' = out.resp
           /\ IF out.resp.isError
              THEN UNCHANGED <<published, subscribers, celery>>
              ELSE LET data == item_data(calls[slot].contribution,
                                         out.resp.item_id)
                   IN  /\ published' =
                              notify_knowledge_published(published, data)
                       /\ subscribers' =
                              listener(subscribers,
                                       json_dumps(data, ItemDataKeys))
                       /\ \E rows \in EndpointOrders(webhook_endpoints,
                                                     calls[slot].org_id) :
                              celery' = dispatch_webhooks(
                                            celery, rows, calls[slot].org_id,
                                            "knowledge.approved",
                                            out.resp.item_id,
                                            calls[slot].contribution.category,
                                            now).celery
    /\ req' = [op |-> "approve_contribution", via |-> "rest",
               id |-> calls[slot].id]
    /\ calls' = [calls EXCEPT ![slot] = Idle]
    /\ UNCHANGED <<webhook_endpoints, casbin, last_run, npending, lsh, burst,
                   signals, now>>

(* second session of reject_contribution_endpoint *)
RejectWrite(slot) ==
    /\ calls[slot].pc = "reject_contribution"
    /\ pending' = { p \in pending : p.id # calls[slot].id }
    /\ resp' = Rejected(calls[slot].id)
    /\ req' = [op |-> "reject_contribution", via |-> "rest",
               id |-> calls[slot].id]
    /\ \E rows \in EndpointOrders(webhook_endpoints, calls[slot].org_id) :
           celery' = dispatch_webhooks(
                         celery, rows, calls[slot].org_id,
                         "knowledge.rejected", calls[slot].id,
                         calls[slot].contribution.category, now).celery
    /\ calls' = [calls EXCEPT ![slot] = Idle]
    /\ UNCHANGED <<subscribers, webhook_endpoints, casbin, last_run, published,
                   items, npending, lsh, burst, signals, now>>

----------------------------------------------------------------------------
(* The interactive review session (cli/review.py) over fetch_pending
   (cli/client.py).  SELECT ... FOR UPDATE SKIP LOCKED locks the rows it
   returns until its session closes, which is when fetch_pending returns. *)

(* rows locked by the fetch_pending sessions that are open in other slots *)
LockedRows(cs, slot) ==
    UNION { { cs[s].batch[k].id : k \in 1..Len(cs[s].batch) } :
              s \in { s \in DOMAIN cs : s # slot /\ cs[s].pc = "fetch_pending" } }

(* ORDER BY contributed_at ASC over a set of row ids *)
OldestFirst(S, at) ==
    { p \in Orderings(S) : \A i, j \in 1..Len(p) : i < j => at[p[i]] <= at[p[j]] }

(* the query of fetch_pending for the order the database returns *)
fetch_pending(pend, order, limit) ==
    [k \in 1..Len(Take(order, limit)) |-> PendingRow(pend, Take(order, limit)[k])]

(* fetch_pending up to the point where the rows are selected and locked *)
FetchPending(slot, org, limit) ==
    LET E == { c.id : c \in { c \in pending :
                                c.org_id = org /\ c.id \notin LockedRows(calls, slot) } }
        at == [id \in E |-> PendingRow(pending, id).contributed_at]
    IN  /\ calls[slot] = Idle
        /\ \E order \in OldestFirst(E, at) :
              calls' = [calls EXCEPT ![slot] =
                          [pc |-> "fetch_pending", org_id |-> org,
                           batch |-> fetch_pending(pending, order, limit),
                           idx |-> 1]]
        /\ req' = NoReq
        /\ resp' = NoResp
        /\ UNCHANGED <<fabric_vars, last_run, published, items, pending, npending, lsh, burst, signals, now>>

(* the session of fetch_pending closes: the locks go, the detached rows are
   returned to review(), which ends at once on an empty queue *)
FetchClose(slot) ==
    LET c == calls[slot]
    IN  /\ c.pc = "fetch_pending"
        /\ calls' = [calls EXCEPT ![slot] =
                        IF c.batch = <<>> THEN Idle ELSE [c EXCEPT !.pc = "review"]]
        /\ req' = [op |-> "fetch_pending", org_id |-> c.org_id, slot |-> slot]
        /\ resp' = [op |-> "fetch_pending", isError |-> FALSE,
                    rows |-> [k \in 1..Len(c.batch) |-> c.batch[k].id]]
        /\ UNCHANGED <<fabric_vars, last_run, published, items, pending, npending, lsh, burst, signals, now>>

ReviewChoices == {"Approve (private)", "Reject", "Skip (review later)"}

(* one turn of the review loop: the reviewer's choice for the current row.
   An exception of approve_contribution ends the session. *)
Review(slot, action) ==
    LET c == calls[slot]
        row == c.batch[c.idx]
        out == IF action = "Approve (private)"
               THEN approve_contribution(items, pending, row.id, FALSE, NoCategory,
                                         now)
               ELSE IF action = "Reject"
               THEN [items |-> items,
                     pending |-> { p \in pending : p.id # row.id },
                     resp |-> Rejected(row.id)]
               ELSE [items |-> items, pending |-> pending,
                     resp |-> [op |-> "skip", isError |-> FALSE,
                               contribution_id |-> row.id]]
    IN  /\ c.pc = "review"
        /\ action # "Skip (review later)" => row.id \notin LockedRows(calls, slot)
        /\ Len(out.items) <= MaxItems
        /\ items' = out.items
        /\ pending' = out.pending
        /\ resp' = out.resp
        /\ req' = [op |-> out.resp.op, via |-> "cli", id |-> row.id, slot |-> slot]
        /\ calls' = [calls EXCEPT ![slot] =
                        IF out.resp.isError \/ c.idx = Len(c.batch) THEN Idle
                        ELSE [c EXCEPT !.idx = @ + 1]]
        /\ UNCHANGED <<fabric_vars, last_run, published, npending, lsh, burst, signals, now>>

----------------------------------------------------------------------------
(* report_outcome (server/tools/report_outcome.py; the REST endpoint in
   api/routes/outcomes.py runs the same steps).  Each step is one database
   session; other requests run between the sessions. *)

ValidOutcomes == {"solved", "did_not_help"}

OutcomeSignalTypes == {"outcome_solved", "outcome_not_helpful"}

OutcomeToSignal(outcome) ==
    IF outcome = "solved" THEN "outcome_solved" ELSE "outcome_not_helpful"

NoRunId == "none"

(* the rows the deduplication check selects *)
ExistingSignals(sigs, item_id, run_id) ==
    { k \in DOMAIN sigs :
        /\ sigs[k].knowledge_item_id = item_id
        /\ sigs[k].run_id = run_id
        /\ sigs[k].signal_type \in OutcomeSignalTypes }

ReportRequest(c) ==
    [op |-> "report_outcome", h |-> c.h, item_id |-> c.item_id,
     outcome |-> c.outcome, run_id |-> c.run_id]

(* authentication, validation and the session that looks the item up *)
ReportEnter(slot, h, item_id, outcome, run_id) ==
    LET error == IF h \notin AuthContexts THEN "auth"
                 ELSE IF outcome \notin ValidOutcomes THEN "bad_outcome"
                 ELSE IF ~ValidUuid(item_id) THEN "invalid_id"
                 ELSE IF ~\E i \in Ids(items) :
                             /\ i = item_id
                             /\ org_filter(items[i], h.org_id)
                             /\ items[i].deleted_at = NULL
                 THEN "not_found"
                 ELSE "ok"
    IN  /\ calls[slot] = Idle
        /\ IF error # "ok"
           THEN /\ calls' = calls
                /\ req' = [op |-> "report_outcome", h |-> h, item_id |-> item_id,
                           outcome |-> outcome, run_id |-> run_id]
                /\ resp' = ErrorResp("report_outcome", error)
           ELSE /\ calls' = [calls EXCEPT ![slot] =
                               [pc |-> IF run_id # NoRunId THEN "dedup" ELSE "insert",
                                h |-> h, item_id |-> item_id, outcome |-> outcome,
                                run_id |-> run_id]]
                /\ req' = NoReq
                /\ resp' = NoResp
        /\ UNCHANGED <<fabric_vars, last_run, published, items, pending, npending, lsh, burst, signals, now>>

(* the deduplication session: scalar_one_or_none() over the existing rows *)
ReportDedup(slot) ==
    LET c == calls[slot]
        existing == ExistingSignals(signals, c.item_id, c.run_id)
    IN  /\ c.pc = "dedup"
        /\ IF existing = {}
           THEN /\ calls' = [calls EXCEPT ![slot].pc = "insert"]
                /\ req' = NoReq
                /\ resp' = NoResp
           ELSE /\ calls' = [calls EXCEPT ![slot] = Idle]
                /\ req' = ReportRequest(c)
                /\ resp' = IF Cardinality(existing) > 1
                           THEN ErrorResp("report_outcome", "multiple_results")
                           ELSE [op |-> "report_outcome", isError |-> FALSE,
                                 status |-> "already_recorded",
                                 item_id |-> c.item_id, outcome |-> c.outcome,
                                 signal_id |-> CHOOSE k \in existing : TRUE]
        /\ UNCHANGED <<fabric_vars, last_run, published, items, pending, npending, lsh, burst, signals, now>>

(* record_signal: its own session inserts the row *)
ReportInsert(slot) ==
    LET c == calls[slot]
    IN  /\ c.pc = "insert"
        /\ signals' = Append(signals,
                             [knowledge_item_id |-> c.item_id,
                              signal_type |-> OutcomeToSignal(c.outcome),
                              agent_id |-> c.h.agent_id, run_id |-> c.run_id,
                              created_at |-> now])
        /\ calls' = [calls EXCEPT ![slot] =
                        [c EXCEPT !.pc = "counter"] @@ [signal_id |-> Len(signals) + 1]]
        /\ req' = NoReq
        /\ resp' = NoResp
        /\ UNCHANGED <<fabric_vars, last_run, published, items, pending, npending, lsh, burst, now>>

(* the session that increments the denormalized counter *)
ReportCounter(slot) ==
    LET c == calls[slot]
    IN  /\ c.pc = "counter"
        /\ items' = [i \in Ids(items) |->
                        IF i # c.item_id THEN items[i]
                        ELSE IF c.outcome = "solved"
                        THEN [items[i] EXCEPT !.helpful_count = @ + 1]
                        ELSE [items[i] EXCEPT !.not_helpful_count = @ + 1]]
        /\ calls' = [calls EXCEPT ![slot] = Idle]
        /\ req' = ReportRequest(c)
        /\ resp' = [op |-> "report_outcome", isError |-> FALSE,
                    status |-> "recorded", item_id |-> c.item_id,
                    outcome |-> c.outcome, signal_id |-> c.signal_id]
        /\ UNCHANGED <<fabric_vars, last_run, published, pending, npending, lsh, burst, signals, now>>

----------------------------------------------------------------------------
(* Quality scorer and signal aggregator (quality/scorer.py,
   quality/aggregator.py).  Scores, rates and weights are in hundredths, days
   in hundredths of a day, the clock in seconds; exp is computed in
   ten-thousandths. *)

(* math.exp(-y) for y >= 0 in ten-thousandths: e^-y = 2^-n * e^-r with
   y = n * ln 2 + r, e^r by its power series *)
ExpNeg(ys) ==
    LET n == ys \div 6931
        r == ys % 6931
        T[k \in 0..8] == IF k = 0 THEN 10000 ELSE (T[k - 1] * r) \div (10000 * k)
        S[k \in 0..8] == IF k = 0 THEN T[0] ELSE S[k - 1] + T[k]
        H[k \in 0..14] == IF k = 0 THEN 100000000 \div S[8] ELSE H[k - 1] \div 2
    IN  IF n > 14 THEN 0 ELSE H[n]

(* the weighted sum without the clamp *)
compute_quality_score_unclamped(retrieval_count, helpful_count, not_helpful_count, contradiction_rate, days_since_last_access, is_version_current) ==
    LET total_outcomes == helpful_count + not_helpful_count
        usefulness == (helpful_count * 100)
                          \div (IF total_outcomes > 1 THEN total_outcomes ELSE 1)
        e2 == ExpNeg(retrieval_count * 400)
        popularity == ((10000 - e2) * 100) \div (10000 + e2)
        freshness == ExpNeg((6931 * days_since_last_access) \div 9000) \div 100
        version_bonus == IF is_version_current THEN 1000 ELSE 0
        raw == 40 * usefulness + 25 * popularity + 20 * freshness
                   - 15 * contradiction_rate + version_bonus
    IN  raw \div 100

(* compute_quality_score with the default weights and half-life, which is
   how the aggregator calls it: tanh(x) = (1 - e^-2x) / (1 + e^-2x) with
   x = retrieval_count / 50, freshness = exp(-ln 2 * days / 90) *)
compute_quality_score(retrieval_count, helpful_count, not_helpful_count, contradiction_rate, days_since_last_access, is_version_current) ==
    LET total_outcomes == helpful_count + not_helpful_count
        usefulness == (helpful_count * 100)
                          \div (IF total_outcomes > 1 THEN total_outcomes ELSE 1)
        e2 == ExpNeg(retrieval_count * 400)
        popularity == ((10000 - e2) * 100) \div (10000 + e2)
        freshness == ExpNeg((6931 * days_since_last_access) \div 9000) \div 100
        version_bonus == IF is_version_current THEN 1000 ELSE 0
        raw == 40 * usefulness + 25 * popularity + 20 * freshness
                   - 15 * contradiction_rate + version_bonus
        capped == IF raw < 10000 THEN raw ELSE 10000
    IN  (IF capped > 0 THEN capped ELSE 0) \div 100

(* step 3 for one affected item: the score from its counters and signals *)
new_score(tbl, sigs, item_id, run_at) ==
    LET mine == { k \in DOMAIN sigs : sigs[k].knowledge_item_id = item_id }
        contra == { k \in mine : sigs[k].signal_type = "contradiction" }
        contradiction_rate ==
            IF mine # {} THEN (Cardinality(contra) * 100) \div Cardinality(mine)
            ELSE 0
        retrievals == { sigs[k].created_at :
                          k \in { j \in mine : sigs[j].signal_type = "retrieval" } }
        last_access == IF retrievals # {}
                       THEN CHOOSE t \in retrievals : \A u \in retrievals : u <= t
                       ELSE tbl[item_id].approved_at
        delta == IF last_access = NULL THEN 0 ELSE run_at - last_access
        days_since_last_access == IF delta > 0 THEN delta \div 864 ELSE 0
    IN  compute_quality_score(tbl[item_id].retrieval_count,
                              tbl[item_id].helpful_count,
                              tbl[item_id].not_helpful_count,
                              contradiction_rate, days_since_last_access,
                              tbl[item_id].expired_at = NULL)

(* aggregate_quality_signals: one session that recomputes the items with
   signals newer than the stored last run (the epoch when none is stored) and
   stores this run's time *)
AggregateQualitySignals ==
    LET run_at == now
        affected_ids == { signals[k].knowledge_item_id :
                            k \in { j \in DOMAIN signals :
                                       signals[j].created_at > last_run } }
        found == affected_ids \cap Ids(items)
    IN  /\ items' = [i \in Ids(items) |->
                        IF i \in found
                        THEN [items[i] EXCEPT
                                 !.quality_score = new_score(items, signals, i, run_at)]
                        ELSE items[i]]
        /\ last_run' = run_at
        /\ req' = [op |-> "aggregate_quality_signals"]
        /\ resp' = [op |-> "aggregate_quality_signals", isError |-> FALSE,
                    items_updated |-> Cardinality(found), run_at |-> run_at]
        /\ UNCHANGED <<fabric_vars, published, pending, npending, lsh, burst, signals, calls, now>>


(* The same run with its two readings apart: run_at is read from the clock
   before the session opens, and other sessions commit in between *)
AggregateBegin(slot) ==
    /\ calls[slot] = Idle
    /\ calls' = [calls EXCEPT ![slot] = [pc |-> "aggregate", run_at |-> now]]
    /\ req' = NoReq
    /\ resp' = NoResp
    /\ UNCHANGED <<fabric_vars, last_run, published, items, pending, npending,
                   lsh, burst, signals, now>>

(* the signals a run's recomputation counts: all those of the items it
   selected *)
CountedSignals(tbl, sigs, since) ==
    LET affected_ids == { sigs[k].knowledge_item_id :
                            k \in { j \in DOMAIN sigs : sigs[j].created_at > since } }
    IN  { k \in DOMAIN sigs :
            sigs[k].knowledge_item_id \in affected_ids \cap Ids(tbl) }

(* the session of the run: steps 1 to 4 and the commit *)
AggregateSession(slot) ==
    LET run_at == calls[slot].run_at
        counted == CountedSignals(items, signals, last_run)
        found == { signals[k].knowledge_item_id : k \in counted }
    IN  /\ calls[slot].pc = "aggregate"
        /\ items' = [i \in Ids(items) |->
                        IF i \in found
                        THEN [items[i] EXCEPT
                                 !.quality_score = new_score(items, signals, i, run_at)]
                        ELSE items[i]]
        /\ last_run' = run_at
        /\ calls' = [calls EXCEPT ![slot] = Idle]
        /\ req' = [op |-> "aggregate_quality_signals"]
        /\ resp' = [op |-> "aggregate_quality_signals", isError |-> FALSE,
                    items_updated |-> Cardinality(found), run_at |-> run_at,
                    counted |-> counted]
        /\ UNCHANGED <<fabric_vars, published, pending, npending, lsh, burst,
                       signals, now>>

(* record_signal with its two steps apart: QualitySignal(...,
   created_at=utcnow()) is built, then the session commits the row *)
RecordSignalBuild(slot) ==
    LET c == calls[slot]
    IN  /\ c.pc = "insert"
        /\ calls' = [calls EXCEPT ![slot] =
                        [c EXCEPT !.pc = "commit"] @@ [created_at |-> now]]
        /\ req' = NoReq
        /\ resp' = NoResp
        /\ UNCHANGED <<fabric_vars, last_run, published, items, pending,
                       npending, lsh, burst, signals, now>>

RecordSignalCommit(slot) ==
    LET c == calls[slot]
    IN  /\ c.pc = "commit"
        /\ signals' = Append(signals,
                             [knowledge_item_id |-> c.item_id,
                              signal_type |-> OutcomeToSignal(c.outcome),
                              agent_id |-> c.h.agent_id, run_id |-> c.run_id,
                              created_at |-> c.created_at])
        /\ calls' = [calls EXCEPT ![slot] =
                        [c EXCEPT !.pc = "counter"] @@ [signal_id |-> Len(signals) + 1]]
        /\ req' = NoReq
        /\ resp' = NoResp
        /\ UNCHANGED <<fabric_vars, last_run, published, items, pending,
                       npending, lsh, burst, now>>

----------------------------------------------------------------------------

Init ==
    /\ items = <<>>
    /\ pending = {}
    /\ npending = 0
    /\ lsh = {}
    /\ burst = [o \in Orgs |-> EmptyZset]
    /\ signals = <<>>
    /\ calls = [c \in 1..MaxCalls |-> Idle]
    /\ last_run = NULL
    /\ published = {}
    /\ subscribers = [s \in 1..MaxSubscribers |-> Closed]
    /\ webhook_endpoints = {}
    /\ celery = <<>>
    /\ casbin = NoRules
    /\ now = 0
    /\ req = NoReq
    /\ resp = NoResp

Tick ==
    /\ now < MaxTime
    /\ now' = now + 1
    /\ req' = NoReq
    /\ resp' = NoResp
    /\ UNCHANGED <<fabric_vars, last_run, published, items, pending, npending, lsh, burst, signals, calls>>

(* Contributions that pass every gate, and one rejected input for each gate *)
ValidContents == { <<"use", "retry", "loops">>, <<"retry", "use", "loops">> }

AddInput(h, content, category, confidence) ==
    [h |-> h, content |-> content, category |-> category, confidence |-> confidence]

A1 == [org_id |-> "orgA", agent_id |-> "a1"]

A2 == [org_id |-> "orgA", agent_id |-> "a2"]

B1 == [org_id |-> "orgB", agent_id |-> "b1"]

RejectedInputs ==
    { AddInput(A1, <<"fix", "it">>, "general", 80),
      AddInput(A1, <<"use", "retry", "loops">>, "general", -10),
      AddInput(A1, <<"use", "retry", "loops">>, "general", 110),
      AddInput(A1, <<"use", "retry", "loops">>, "bogus", 80),
      AddInput(NoAuth, <<"use", "retry", "loops">>, "general", 80),
      AddInput(A1, <<"ignore", "prior", "rules">>, "general", 80),
      AddInput(A1, <<"bob@x.io", "ann@y.io", "daily">>, "general", 80) }

GateInputs ==
    RejectedInputs \cup
    { AddInput(A1, c, k, 80) : c \in ValidContents, k \in KnowledgeCategory }

NextGates ==
    \/ Tick
    \/ \E x \in GateInputs : AddKnowledge(x.h, x.content, x.category, x.confidence)

SpecGates == Init /\ [][NextGates]_vars

(* The visibility tools over auto-approved contributions of two tenants *)
Queries == { <<"retry", "loops">> }

Contributions ==
    { AddInput(A1, c, "general", 80) : c \in ValidContents } \cup
    { AddInput(B1, <<"use", "retry", "loops">>, "general", 80) }

Next ==
    \/ \E x \in Contributions :
           AddKnowledge(x.h, x.content, x.category, x.confidence)
    \/ \E h \in {A1, B1}, id \in 1..MaxItems, is_public \in BOOLEAN :
           PublishKnowledge(h, id, is_public)
    \/ \E h \in AuthContexts, id \in 1..MaxItems : DeleteKnowledge(h, id)
    \/ \E h \in {A1, B1}, query \in Queries :
           SearchKnowledge(1, h, query, NoCategory, MaxItems, NoCursor, NULL)
    \/ RecordRetrievalSignals(1)
    \/ \E h \in {A1, B1}, id \in 0..MaxItems : FetchById(h, id)
    \/ \E h \in AuthContexts : ListKnowledge(h, "all", NoCategory, MaxItems, NoCursor)

Spec == Init /\ [][Next]_vars

(* One tenant's contributions through the dedup pipeline and the conflict
   resolver, and point-in-time searches *)
NextTemporal ==
    \/ Tick
    \/ RebuildLshIndex
    \/ \E content \in ValidContents : AddKnowledge(A1, content, "general", 80)
    \/ \E query \in Queries, at_time \in {NULL} \cup 0..(MaxTime + 1) :
           SearchKnowledge(1, A1, query, NoCategory, MaxItems, NoCursor, at_time)
    \/ RecordRetrievalSignals(1)

SpecTemporal == Init /\ [][NextTemporal]_vars

(* Contributions of two tenants and their review through the CLI and
   through REST requests that run concurrently, one request of each
   endpoint in flight at a time *)
ReviewContributions ==
    { AddInput(A1, <<"use", "retry", "loops">>, "bug_fix", 80),
      AddInput(A1, <<"use", "retry", "loops">>, "general", 80),
      AddInput(B1, <<"use", "retry", "loops">>, "bug_fix", 80) }

NextReview ==
    \/ Tick
    \/ \E x \in ReviewContributions :
           AddKnowledge(x.h, x.content, x.category, x.confidence)
    \/ \E id \in 1..MaxContribs : CliApprove(id, FALSE, NoCategory)
    \/ \E id \in 1..MaxContribs : CliReject(id)
    \/ \E org \in Orgs, id \in 1..MaxContribs :
           \/ ReviewRead(1, "approve_contribution", org, id)
           \/ ReviewRead(2, "reject_contribution", org, id)
    \/ ApproveWrite(1)
    \/ RejectWrite(2)

SpecReview == Init /\ [][NextReview]_vars

(* Concurrent add_knowledge requests of one tenant at the burst gate *)
NextBurst ==
    \/ Tick
    \/ \E slot \in 1..MaxCalls :
           \/ BurstEnter(slot, A1, <<"use", "retry", "loops">>, "bug_fix", 80)
           \/ BurstZAdd(slot)
           \/ BurstPrune(slot)
           \/ BurstCount(slot)
           \/ AddFinish(slot)

SpecBurst == Init /\ [][NextBurst]_vars

(* Agents of one tenant reporting outcomes for a run, possibly retrying
   while an earlier report is still in flight *)
NextOutcome ==
    \/ Tick
    \/ AddKnowledge(A1, <<"use", "retry", "loops">>, "general", 80)
    \/ \E slot \in {1, 2}, h \in {A1, A2}, outcome \in ValidOutcomes :
           /\ Len(signals) < MaxSignals
           /\ ReportEnter(slot, h, 1, outcome, "run-1")
    \/ \E slot \in {1, 2} :
           \/ ReportDedup(slot)
           \/ ReportInsert(slot)
           \/ ReportCounter(slot)

SpecOutcome == Init /\ [][NextOutcome]_vars

(* Two reviewers of one tenant working through its pending queue *)
NextQueue ==
    \/ Tick
    \/ AddKnowledge(A1, <<"use", "retry", "loops">>, "bug_fix", 80)
    \/ AddKnowledge(A2, <<"retry", "use", "loops">>, "bug_fix", 80)
    \/ \E slot \in {1, 2}, limit \in 1..MaxContribs : FetchPending(slot, "orgA", limit)
    \/ \E slot \in {1, 2} : FetchClose(slot)
    \/ \E slot \in {1, 2}, action \in ReviewChoices : Review(slot, action)

SpecQueue == Init /\ [][NextQueue]_vars

(* One tenant's contributions, with and without an auto-approve rule for
   their category, through the dedup pipeline and the conflict resolver *)
NextConflict ==
    \/ Tick
    \/ RebuildLshIndex
    \/ \E content \in ValidContents, category \in KnowledgeCategory :
           AddKnowledge(A1, content, category, 80)

SpecConflict == Init /\ [][NextConflict]_vars

(* A contribution of orgA that matches a public item of orgB: orgB
   contributes and publishes, the index is rebuilt, orgA contributes *)
NextTenant ==
    \/ RebuildLshIndex
    \/ AddKnowledge(B1, <<"use", "retry", "loops">>, "general", 80)
    \/ \E is_public \in BOOLEAN : PublishKnowledge(B1, 1, is_public)
    \/ \E content \in ValidContents, category \in KnowledgeCategory :
           AddKnowledge(A1, content, category, 80)

SpecTenant == Init /\ [][NextTenant]_vars

(* Ingestion with the clock free to advance between the two readings of the
   auto-approve insert *)
NextIngest ==
    \/ Tick
    \/ \E content \in ValidContents, category \in KnowledgeCategory,
          approved \in {now, now + 1} :
           AddKnowledgeAt(A1, content, category, 80, approved)

SpecIngest == Init /\ [][NextIngest]_vars

(* One tenant's items, searches that run concurrently and their recording
   tasks, which the event loop runs in any order *)
NextRetrieval ==
    \/ \E content \in ValidContents : AddKnowledge(A1, content, "general", 80)
    \/ \E id \in 1..MaxItems : DeleteKnowledge(A1, id)
    \/ \E slot \in {1, 2}, query \in Queries :
           SearchKnowledge(slot, A1, query, NoCategory, MaxItems, NoCursor, NULL)
    \/ \E slot \in {1, 2} : RecordRetrievalSignals(slot)

SpecRetrieval == Init /\ [][NextRetrieval]_vars

(* The aggregator over one stored item whose counters, age and signals are
   drawn from bounded sets, new items arriving meanwhile.  The clock stands
   at 0, 90 or 900 days after the item was approved. *)
SignalInputs ==
    { [knowledge_item_id |-> 1, signal_type |-> t, agent_id |-> "a1",
       run_id |-> NoRunId, created_at |-> 0] :
        t \in {"outcome_solved", "contradiction", "retrieval"} }

InitQuality ==
    /\ \E rc \in {0, 50}, hc \in 0..1, nc \in 0..1, ex \in {NULL, 0}, ap \in {NULL, 0} :
           items = << [NewItem(A1, <<"use", "retry", "loops">>,
                               compute_content_hash(<<"use", "retry", "loops">>),
                               "general", 80, FALSE, DefaultQualityScore, TRUE,
                               0, ap, NULL)
                          EXCEPT !.retrieval_count = rc, !.helpful_count = hc,
                                 !.not_helpful_count = nc, !.expired_at = ex] >>
    /\ signals \in {<<>>} \cup { <<a>> : a \in SignalInputs }
                        \cup { <<a, b>> : a \in SignalInputs, b \in SignalInputs }
    /\ now \in {0, 90 * 86400, 900 * 86400}
    /\ last_run \in {NULL, 0}
    /\ pending = {}
    /\ npending = 0
    /\ lsh = {}
    /\ burst = [o \in Orgs |-> EmptyZset]
    /\ calls = [c \in 1..MaxCalls |-> Idle]
    /\ published = {}
    /\ subscribers = [s \in 1..MaxSubscribers |-> Closed]
    /\ webhook_endpoints = {}
    /\ celery = <<>>
    /\ casbin = NoRules
    /\ req = NoReq
    /\ resp = NoResp

NextQuality ==
    \/ AggregateQualitySignals
    \/ AddKnowledge(A1, <<"retry", "use", "loops">>, "general", 80)

SpecQuality == InitQuality /\ [][NextQuality]_vars

(* The periodic aggregator beside agents that report outcomes for one stored
   item: Celery Beat starts a run again and again, and every session that
   was opened commits *)
AggregatorSlots == {1}

SignalSlots == {2, 3}

InitAggregate ==
    /\ items = << NewItem(A1, <<"use", "retry", "loops">>,
                          compute_content_hash(<<"use", "retry", "loops">>),
                          "general", 80, FALSE, DefaultQualityScore, TRUE,
                          0, 0, NULL) >>
    /\ signals = <<>>
    /\ now = 0
    /\ last_run = NULL
    /\ pending = {}
    /\ npending = 0
    /\ lsh = {}
    /\ burst = [o \in Orgs |-> EmptyZset]
    /\ calls = [c \in 1..MaxCalls |-> Idle]
    /\ published = {}
    /\ subscribers = [s \in 1..MaxSubscribers |-> Closed]
    /\ webhook_endpoints = {}
    /\ celery = <<>>
    /\ casbin = NoRules
    /\ req = NoReq
    /\ resp = NoResp

ReportsInFlight == { slot \in SignalSlots : calls[slot] # Idle }

NextAggregate ==
    \/ Tick
    \/ \E slot \in AggregatorSlots : AggregateBegin(slot)
    \/ \E slot \in AggregatorSlots : AggregateSession(slot)
    \/ \E slot \in SignalSlots, outcome \in ValidOutcomes :
           /\ Len(signals) + Cardinality(ReportsInFlight) < MaxSignals
           /\ ReportEnter(slot, A1, 1, outcome, NoRunId)
    \/ \E slot \in SignalSlots : RecordSignalBuild(slot)
    \/ \E slot \in SignalSlots : RecordSignalCommit(slot)
    \/ \E slot \in SignalSlots : ReportCounter(slot)

SpecAggregate == InitAggregate /\ [][NextAggregate]_vars

SpecAggregateLive ==
    /\ SpecAggregate
    /\ WF_vars(Tick)
    /\ WF_vars(\E slot \in AggregatorSlots : AggregateBegin(slot))
    /\ WF_vars(\E slot \in AggregatorSlots : AggregateSession(slot))
    /\ \A slot \in SignalSlots :
           /\ WF_vars(RecordSignalBuild(slot))
           /\ WF_vars(RecordSignalCommit(slot))
           /\ WF_vars(ReportCounter(slot))

(* Searches of one tenant over two stored items of equal relevance to the
   query, whose quality scores are drawn from a bounded set of values the
   aggregator can write *)
QualityInputs == {0, 49, 50, 51, 100}

InitRanking ==
    /\ \E q1 \in QualityInputs, q2 \in QualityInputs :
           items = << NewItem(A1, <<"use", "retry", "loops">>,
                              compute_content_hash(<<"use", "retry", "loops">>),
                              "general", 80, FALSE, q1, TRUE, 0, 0, NULL),
                      NewItem(A1, <<"retry", "use", "loops">>,
                              compute_content_hash(<<"retry", "use", "loops">>),
                              "general", 80, FALSE, q2, TRUE, 0, 0, NULL) >>
    /\ signals = <<>>
    /\ now = 0
    /\ last_run = NULL
    /\ pending = {}
    /\ npending = 0
    /\ lsh = {}
    /\ burst = [o \in Orgs |-> EmptyZset]
    /\ calls = [c \in 1..MaxCalls |-> Idle]
    /\ published = {}
    /\ subscribers = [s \in 1..MaxSubscribers |-> Closed]
    /\ webhook_endpoints = {}
    /\ celery = <<>>
    /\ casbin = NoRules
    /\ req = NoReq
    /\ resp = NoResp

NextRanking ==
    \/ \E query \in Queries, limit \in 1..MaxItems :
           SearchKnowledge(1, A1, query, NoCategory, limit, NoCursor, NULL)
    \/ RecordRetrievalSignals(1)
    \/ \E id \in 1..MaxItems : DeleteKnowledge(A1, id)

SpecRanking == InitRanking /\ [][NextRanking]_vars

(* Paged searches of two approved items of one tenant: the cursor is the
   encoding of a text of up to two bytes, of one of three longer texts, or
   such an encoding with its padding cut, a foreign character inserted or a
   second cursor appended; the limit lies on both sides of the maximum *)
MaxOffset == 120

CursorTexts ==
    UNION { [1..n -> {48, 49, 45, 43, 32, 120}] : n \in 1..2 }
    \cup { <<49, 95, 48>>, <<45, 49, 48>>, <<49, 48, 48>> }

CursorInputs ==
    { urlsafe_b64encode(t) : t \in CursorTexts }
    \cup { SubSeq(urlsafe_b64encode(str(n)), 1, k) : n \in {1, 10}, k \in 1..3 }
    \cup { <<urlsafe_b64encode(str(n))[1], Pad + 1>>
             \o Tail(urlsafe_b64encode(str(n))) : n \in {1, 10} }
    \cup { urlsafe_b64encode(str(1)) \o urlsafe_b64encode(str(n)) : n \in {0, 10} }
    \cup { <<Pad>> \o urlsafe_b64encode(str(1)), <<Pad + 1>> }

LimitInputs == {1, MaxSearchLimit, MaxSearchLimit + 1}

NextCursor ==
    \/ \E cursor \in CursorInputs \cup {NoCursor}, limit \in LimitInputs :
           SearchKnowledge(1, A1, <<"retry">>, NoCategory, limit, cursor, NULL)
    \/ RecordRetrievalSignals(1)

InitCursor ==
    /\ InitRanking
    /\ \A i \in 1..Len(items) : items[i].quality_score = DefaultQualityScore

SpecCursor == InitCursor /\ [][NextCursor]_vars

(* The dedup pipeline on a table of up to MaxItems auto-approved items of
   orgA with one token set, indexed by a rebuild or not: the query has the
   same tokens, one token more, or none in common, the caller is either
   tenant, and the LLM confirms or denies with a confidence of 0, 0.5 or
   0.9 *)
DedupAnswers ==
    LlmAnswers \cup { [is_duplicate |-> TRUE, confidence |-> 50],
                      [is_duplicate |-> FALSE, confidence |-> 90] }

DedupContents ==
    ValidContents \cup { <<"use", "retry", "loops", "always">>,
                         <<"pin", "versions", "early">> }

NextDedup ==
    \/ RebuildLshIndex
    \/ \E content \in ValidContents : AddKnowledge(A1, content, "general", 80)
    \/ DeleteKnowledge(A1, 1)
    \/ \E content \in DedupContents, org \in Orgs :
           RunDedupPipeline(content, org, DedupAnswers)

SpecDedup == Init /\ [][NextDedup]_vars

(* Ingestion while the LLM is out of reach: every call of Stage 3 and of the
   resolver fails, or Stage 3 is answered and the call of the resolver
   fails *)
NextLlmDown ==
    \/ Tick
    \/ RebuildLshIndex
    \/ \E content \in ValidContents, category \in KnowledgeCategory :
           AddKnowledgeLlm(A1, content, category, 80, now, LlmFailures, LlmFailures)
    \/ \E content \in ValidContents, category \in KnowledgeCategory :
           AddKnowledgeLlm(A1, content, category, 80, now, DedupReplies, LlmFailures)

SpecLlmDown == Init /\ [][NextLlmDown]_vars

(* Paged searches by orgA over its own item 1, the public item 2 of orgB
   with the same content, and its own item 3 with another content of the
   same words; the quality scores of items 1 and 2 are drawn from
   PageQualities, and every page size and every offset up to the number of
   rows is asked for *)
PageRows == 3

PageQualities == {0, DefaultQualityScore, 100}

InitPage ==
    /\ \E q1 \in PageQualities, q2 \in PageQualities :
           items = << NewItem(A1, <<"use", "retry", "loops">>,
                              compute_content_hash(<<"use", "retry", "loops">>),
                              "general", 80, FALSE, q1, TRUE, 0, 0, NULL),
                      NewItem(B1, <<"use", "retry", "loops">>,
                              compute_content_hash(<<"use", "retry", "loops">>),
                              "general", 80, TRUE, q2, TRUE, 0, 0, NULL),
                      NewItem(A1, <<"retry", "use", "loops">>,
                              compute_content_hash(<<"retry", "use", "loops">>),
                              "general", 80, FALSE, DefaultQualityScore, TRUE,
                              0, 0, NULL) >>
    /\ signals = <<>>
    /\ now = 0
    /\ last_run = NULL
    /\ pending = {}
    /\ npending = 0
    /\ lsh = {}
    /\ burst = [o \in Orgs |-> EmptyZset]
    /\ calls = [c \in 1..MaxCalls |-> Idle]
    /\ published = {}
    /\ subscribers = [s \in 1..MaxSubscribers |-> Closed]
    /\ webhook_endpoints = {}
    /\ celery = <<>>
    /\ casbin = NoRules
    /\ req = NoReq
    /\ resp = NoResp

NextPage ==
    \/ \E limit \in 1..PageRows,
          cursor \in {NoCursor} \cup { encode_cursor(n) : n \in 1..PageRows } :
           SearchKnowledge(1, A1, <<"retry">>, NoCategory, limit, cursor, NULL)
    \/ RecordRetrievalSignals(1)

SpecPage == InitPage /\ [][NextPage]_vars

(* The sanitizer on markdown: every text of up to MaxMarkdownLen lexemes
   out of a backtick, a word and a whitespace, and one fenced block around
   up to two lexemes, with a short text before and after it *)
MaxMarkdownLen == 4

MarkdownInputs ==
    UNION { [1..n -> {BT, "x", " "}] : n \in 0..MaxMarkdownLen }
    \cup { head \o <<BT, BT, BT>> \o body \o <<BT, BT, BT>> \o tail :
             head \in {<<>>, <<BT>>, <<BT, "x">>, <<"bob@x.io", " ">>},
             body \in UNION { [1..n -> {"x", " ", "[EMAIL]", "bob@x.io"}] : n \in 0..2 },
             tail \in {<<>>, <<BT>>, <<" ">>, <<" ", "bob@x.io">>} }

NextSanitizer == \E text \in MarkdownInputs : Strip(text)

SpecSanitizer == Init /\ [][NextSanitizer]_vars

(* Every path that inserts a knowledge item: auto-approved contributions
   through the dedup pipeline and the conflict resolver, and approvals of
   queued ones *)
NextStore ==
    \/ RebuildLshIndex
    \/ \E x \in ReviewContributions \cup
                  { AddInput(A1, <<"retry", "use", "loops">>, "general", 80) } :
           AddKnowledge(x.h, x.content, x.category, x.confidence)
    \/ \E id \in 1..MaxContribs : CliApprove(id, FALSE, NoCategory)
    \/ \E org \in Orgs, id \in 1..MaxContribs :
           ReviewRead(1, "approve_contribution", org, id)
    \/ ApproveWrite(1)

SpecStore == Init /\ [][NextStore]_vars

----------------------------------------------------------------------------
(* The SSE feed under notifications of both visibilities and both orgs, the
   approval endpoint being one of the notifiers *)

NotificationInputs ==
    { [id |-> 2, is_public |-> x[1], org_id |-> x[2], category |-> "general",
       title |-> <<"retry", "loops">>] :
          x \in {<<TRUE, "orgB">>, <<FALSE, "orgB">>} }

NextStream ==
    \/ \E s \in 1..MaxSubscribers, org \in Orgs : StreamKnowledgeFeed(s, org)
    \/ \E s \in 1..MaxSubscribers : EventGenerator(s)
    \/ \E s \in 1..MaxSubscribers : Ping(s)
    \/ \E s \in 1..MaxSubscribers : Disconnect(s)
    \/ \E data \in NotificationInputs : Notify(data)
    \/ AddKnowledge(B1, <<"use", "retry", "loops">>, "bug_fix", 80)
    \/ \E id \in 1..MaxContribs : ReviewRead(1, "approve_contribution", "orgB", id)
    \/ ApproveWrite(1)

SpecStream == Init /\ [][NextStream]_vars

----------------------------------------------------------------------------
(* Approvals and rejections with registered webhook endpoints: the table
   holds up to MaxEndpoints of the rows below when the service starts *)

MaxEndpoints == 2

Endpoint(id, org_id, event_types, is_active) ==
    [id |-> id, org_id |-> org_id, url |-> <<"https://hook", id>>,
     event_types |-> event_types, is_active |-> is_active]

EndpointInputs ==
    { Endpoint(1, "orgA", JsonNull, TRUE),
      Endpoint(2, "orgA", JsonNull, FALSE),
      Endpoint(3, "orgB", JsonNull, TRUE),
      Endpoint(4, "orgA", JsonObject({"knowledge.rejected"}), TRUE),
      Endpoint(5, "orgA", JsonObject({"knowledge.approved"}), TRUE),
      Endpoint(6, "orgA", JsonObject({}), TRUE),
      Endpoint(7, "orgA", JsonArray({"knowledge.approved"}), TRUE) }

InitFrom(endpoints) ==
    /\ items = <<>>
    /\ pending = {}
    /\ npending = 0
    /\ lsh = {}
    /\ burst = [o \in Orgs |-> EmptyZset]
    /\ signals = <<>>
    /\ calls = [c \in 1..MaxCalls |-> Idle]
    /\ last_run = NULL
    /\ published = {}
    /\ subscribers = [s \in 1..MaxSubscribers |-> Closed]
    /\ webhook_endpoints \in { t \in SUBSET endpoints :
                                 Cardinality(t) <= MaxEndpoints }
    /\ celery = <<>>
    /\ casbin = NoRules
    /\ now = 0
    /\ req = NoReq
    /\ resp = NoResp

InitDispatch == InitFrom(EndpointInputs)

NextDispatch ==
    \/ AddKnowledge(A1, <<"use", "retry", "loops">>, "bug_fix", 80)
    \/ AddKnowledge(B1, <<"use", "retry", "loops">>, "bug_fix", 80)
    \/ \E id \in 1..MaxContribs : CliApprove(id, FALSE, NoCategory)
    \/ \E org \in Orgs, id \in 1..MaxContribs :
           \/ ReviewRead(1, "approve_contribution", org, id)
           \/ ReviewRead(2, "reject_contribution", org, id)
    \/ ApproveWrite(1)
    \/ RejectWrite(2)

SpecDispatch == InitDispatch /\ [][NextDispatch]_vars

----------------------------------------------------------------------------
(* Delivery of the tasks an approval enqueues: a worker takes every task
   that is waiting, first run or retry, and runs it *)

InitDelivery ==
    InitFrom({ e \in EndpointInputs : e.id \in {1, 5} })

NextDelivery ==
    \/ AddKnowledge(A1, <<"use", "retry", "loops">>, "bug_fix", 80)
    \/ \E id \in 1..MaxContribs : CliApprove(id, FALSE, NoCategory)
    \/ \E i \in DOMAIN celery, result \in HttpResults : DeliverWebhook(i, result)

SpecDelivery == InitDelivery /\ [][NextDelivery]_vars

SpecDeliveryFair ==
    /\ SpecDelivery
    /\ WF_vars(\E i \in DOMAIN celery, result \in HttpResults :
                   DeliverWebhook(i, result))

----------------------------------------------------------------------------
(* manage_roles called by every agent, after both orgs were onboarded with
   the default policies and a1, or a1 and b1, were bound to the admin role *)

InitRbac ==
    /\ items = <<>>
    /\ pending = {}
    /\ npending = 0
    /\ lsh = {}
    /\ burst = [o \in Orgs |-> EmptyZset]
    /\ signals = <<>>
    /\ calls = [c \in 1..MaxCalls |-> Idle]
    /\ last_run = NULL
    /\ published = {}
    /\ subscribers = [s \in 1..MaxSubscribers |-> Closed]
    /\ webhook_endpoints = {}
    /\ celery = <<>>
    /\ \E g \in { {<<"a1", "admin", "orgA">>},
                  {<<"a1", "admin", "orgA">>, <<"b1", "admin", "orgB">>} } :
           casbin = [seed_default_policies(
                         seed_default_policies(NoRules, "orgA"), "orgB")
                     EXCEPT !.g = g]
    /\ now = 0
    /\ req = NoReq
    /\ resp = NoResp

RoleRequest(action, agent_id, role, obj, permission) ==
    [action |-> action, agent_id |-> agent_id, role |-> role, obj |-> obj,
     permission |-> permission]

RoleInputs ==
    { RoleRequest("assign_role", "a2", "admin", NoObj, None),
      RoleRequest("assign_role", "b1", "admin", NoObj, None),
      RoleRequest("assign_role", "a2", None, NoObj, None),
      RoleRequest("get_roles", "a2", None, NoObj, None),
      RoleRequest("add_permission", "b1", None, namespace_obj("orgB"), "*"),
      RoleRequest("add_permission", "a2", None, namespace_obj("orgA"), "*"),
      RoleRequest("add_permission", "b1", None, NoObj, "*"),
      RoleRequest("add_permission", "b1", None, namespace_obj("orgB"), None),
      RoleRequest("remove_permission", "admin", None, namespace_obj("orgA"), "*"),
      RoleRequest("remove_permission", "b1", None, namespace_obj("orgB"), "*"),
      RoleRequest("remove_permission", "b1", None, NoObj, "*"),
      RoleRequest("grant", "a2", "admin", namespace_obj("orgA"), "*") }

NextRbac ==
    \E h \in AuthContexts \cup {NoAuth}, x \in RoleInputs :
        ManageRoles(h, x.action, x.agent_id, x.role, x.obj, x.permission)

SpecRbac == InitRbac /\ [][NextRbac]_vars

----------------------------------------------------------------------------
(* run_distillation (quality/distillation.py) from the threshold check to
   the commit of the summaries.  Each step commits in a session of its own;
   steps e and f write the tags of pending rows and
   deployment_config["distillation_last_run"], which this model does not hold *)

(* _CLUSTER_DISTANCE_THRESHOLD, in hundredths, and _MIN_CLUSTER_SIZE *)
ClusterDistanceThreshold == 30
MinClusterSize == 3

(* confidence and quality_score of a stored summary, in hundredths *)
SummaryConfidence == 80
SummaryQualityScore == 60

MaxDistilledItems == 5
MaxDistilledSignals == 3

(* what _call_summary_llm returns for a cluster: None on a failure or an
   empty text, which `if not summary_text` both skip; a clean text; a text
   with one address; a text that is an address *)
SummaryReplies ==
    { <<>>,
      <<"retry", "loops", "work">>,
      <<"ask", "bob@x.io", "about", "retry">>,
      <<"bob@x.io">> }

(* the outcomes of `from hivemind.pipeline.pii import PIIPipeline` and
   get_instance().strip: the pipeline runs, or raises *)
Sanitizers == {"available", "unavailable"}

(* the orders of every duplicate group, one order for each group *)
duplicate_rows(tbl) ==
    { f \in [duplicate_groups(tbl) ->
                UNION { ByQualityDesc(tbl, g) : g \in duplicate_groups(tbl) }] :
        \A g \in duplicate_groups(tbl) : f[g] \in ByQualityDesc(tbl, g) }

(* contradiction_signals_sql: the current rows that a contradiction signal
   points to *)
contradiction_rows(tbl, sigs) ==
    { i \in Ids(tbl) :
        /\ tbl[i].expired_at = NULL
        /\ tbl[i].deleted_at = NULL
        /\ \E s \in DOMAIN sigs :
               /\ sigs[s].signal_type = "contradiction"
               /\ sigs[s].knowledge_item_id = i }

(* step c with the rows of the query in the order `rows`: one signal for
   every (category, org_id) with two rows or more, anchored to its first row *)
flag_contradictions(tbl, sigs, rows, t) ==
    LET key(i) == <<tbl[i].category, tbl[i].org_id>>
        size(k) == Cardinality({ j \in 1..Len(rows) : key(rows[j]) = key(rows[k]) })
        anchors == { k \in 1..Len(rows) :
                       /\ \A j \in 1..(k - 1) : key(rows[j]) # key(rows[k])
                       /\ size(k) >= 2 }
        nth(n) == CHOOSE k \in anchors :
                      Cardinality({ j \in anchors : j < k }) = n - 1
    IN  sigs \o [n \in 1..Cardinality(anchors) |->
                    [knowledge_item_id |-> rows[nth(n)],
                     signal_type |-> "contradiction_cluster",
                     agent_id |-> None, run_id |-> NoRunId,
                     created_at |-> t]]

(* clusterable_items_sql: the pairs of current rows of one category and org
   whose embeddings are nearer than the threshold *)
clusterable_pairs(tbl) ==
    { p \in Ids(tbl) \X Ids(tbl) :
        /\ p[1] < p[2]
        /\ tbl[p[1]].category = tbl[p[2]].category
        /\ tbl[p[1]].org_id = tbl[p[2]].org_id
        /\ tbl[p[1]].expired_at = NULL /\ tbl[p[1]].deleted_at = NULL
        /\ tbl[p[2]].expired_at = NULL /\ tbl[p[2]].deleted_at = NULL
        /\ tbl[p[1]].embedding /\ tbl[p[2]].embedding
        /\ CosineDistance(tbl[p[1]].content, tbl[p[2]].content)
               < ClusterDistanceThreshold }

(* the breadth-first search from the rows S along the pairs *)
RECURSIVE component(_, _)
component(pairs, S) ==
    LET grown == S \cup { p[2] : p \in { p \in pairs : p[1] \in S } }
                   \cup { p[1] : p \in { p \in pairs : p[2] \in S } }
    IN  IF grown = S THEN S ELSE component(pairs, grown)

(* the connected components of _MIN_CLUSTER_SIZE rows or more *)
connected_components(pairs) ==
    LET nodes == { p[1] : p \in pairs } \cup { p[2] : p \in pairs }
    IN  { c \in { component(pairs, {n}) : n \in nodes } :
            Cardinality(c) >= MinClusterSize }

(* the PII re-scan of one generated summary: whether the loop goes on to
   store it, and with which text *)
rescan_summary(summary_text, sanitizer) ==
    IF summary_text = <<>> THEN
        [stored |-> FALSE, text |-> summary_text]
    ELSE IF sanitizer = "unavailable" THEN
        [stored |-> TRUE, text |-> summary_text]
    ELSE IF strip_pii(summary_text).should_reject THEN
        [stored |-> FALSE, text |-> summary_text]
    ELSE
        [stored |-> TRUE, text |-> strip_pii(summary_text).cleaned]

(* KnowledgeItem(...) of a summary *)
SummaryItem(tbl, cluster, text, t) ==
    LET member == CHOOSE i \in cluster : TRUE
    IN  NewItem([org_id |-> tbl[member].org_id, agent_id |-> "distillation"],
                text, compute_content_hash(text), tbl[member].category,
                SummaryConfidence, FALSE, SummaryQualityScore, FALSE, t, t,
                NULL)
            @@ [distilled |-> TRUE, source_item_ids |-> cluster]

(* step d over the clusters in the order `order`: the rows it adds to the
   session.  Without an API key no cluster is summarised. *)
summary_items(tbl, order, api_key, replies, sanitizer, t) ==
    LET scan(k) == rescan_summary(replies[order[k]], sanitizer)
        stored == { k \in 1..Len(order) : api_key /\ scan(k).stored }
        nth(n) == CHOOSE k \in stored :
                      Cardinality({ j \in stored : j < k }) = n - 1
    IN  [n \in 1..Cardinality(stored) |->
            SummaryItem(tbl, order[nth(n)], scan(nth(n)).text, t)]

(* the commit of step d: uq_knowledge_items_hash_org over the old rows and
   the new ones *)
SummaryViolation(tbl, new) ==
    \/ \E n \in DOMAIN new : UniqueViolation(tbl, new[n].content_hash, new[n].org_id)
    \/ \E m, n \in DOMAIN new :
           /\ m # n
           /\ new[m].content_hash = new[n].content_hash
           /\ new[m].org_id = new[n].org_id

(* one run of the task *)
RunDistillation(api_key, sanitizer) ==
    /\ Len(items) < MaxDistilledItems
    /\ Len(signals) < MaxDistilledSignals
    /\ IF below_threshold(pending, signals)
       THEN /\ items' = items
            /\ signals' = signals
            /\ req' = [op |-> "run_distillation", api_key |-> api_key,
                       sanitizer |-> sanitizer, replies |-> <<>>]
            /\ resp' = [op |-> "run_distillation", isError |-> FALSE,
                        status |-> "skipped"]
       ELSE \E ids \in duplicate_rows(items) :
                LET merged == merge_duplicates(items, ids, now)
                    clusters == connected_components(clusterable_pairs(merged))
                IN  \E rows \in Orderings(contradiction_rows(merged, signals)),
                       order \in Orderings(clusters),
                       replies \in [clusters -> SummaryReplies] :
                        LET new == summary_items(merged, order, api_key,
                                                 replies, sanitizer, now)
                        IN  /\ signals' = flag_contradictions(merged, signals,
                                                              rows, now)
                            /\ req' = [op |-> "run_distillation",
                                       api_key |-> api_key,
                                       sanitizer |-> sanitizer,
                                       replies |-> [k \in 1..Len(order) |->
                                                       replies[order[k]]]]
                            /\ IF SummaryViolation(merged, new)
                               THEN /\ items' = merged
                                    /\ resp' = ErrorResp("run_distillation",
                                                         "integrity_error")
                               ELSE /\ items' = merged \o new
                                    /\ resp' = [op |-> "run_distillation",
                                                isError |-> FALSE,
                                                status |-> "completed",
                                                summaries_generated |-> Len(new)]
    /\ UNCHANGED <<fabric_vars, last_run, published, pending, npending, lsh,
                   burst, calls, now>>

(* Three related items of one tenant, and a reason to run: a pending
   contribution of another tenant, or contradiction signals on two items *)
DistillContents ==
    << <<"use", "retry", "loops">>, <<"retry", "use", "loops">>,
       <<"loops", "use", "retry">> >>

InitSummary ==
    /\ \E category \in KnowledgeCategory :
           items = [i \in 1..3 |->
                       NewItem(A1, DistillContents[i],
                               compute_content_hash(DistillContents[i]),
                               IF i = 3 THEN category ELSE "general", 80,
                               FALSE, DefaultQualityScore, TRUE, 0, 0, NULL)]
    /\ \E n \in 0..2 :
           signals = [s \in 1..n |->
                         [knowledge_item_id |-> s,
                          signal_type |-> "contradiction", agent_id |-> "a1",
                          run_id |-> NoRunId, created_at |-> 0]]
    /\ \E np \in 0..1 :
           /\ npending = np
           /\ pending = { [id |-> 1, org_id |-> "orgB",
                           source_agent_id |-> "b1",
                           content |-> <<"use", "retry", "loops">>,
                           content_hash |->
                               compute_content_hash(<<"use", "retry", "loops">>),
                           category |-> "bug_fix", confidence |-> 80,
                           tags |-> {}, contributed_at |-> 0] : k \in 1..np }
    /\ now = 0
    /\ last_run = NULL
    /\ lsh = {}
    /\ burst = [o \in Orgs |-> EmptyZset]
    /\ calls = [c \in 1..MaxCalls |-> Idle]
    /\ published = {}
    /\ subscribers = [s \in 1..MaxSubscribers |-> Closed]
    /\ webhook_endpoints = {}
    /\ celery = <<>>
    /\ casbin = NoRules
    /\ req = NoReq
    /\ resp = NoResp

NextSummary ==
    \/ Tick
    \/ \E api_key \in BOOLEAN, sanitizer \in Sanitizers :
           RunDistillation(api_key, sanitizer)
    \/ \E id \in 1..3 : DeleteKnowledge(A1, id)

SpecSummary == InitSummary /\ [][NextSummary]_vars

(* The merge over tables that hold duplicate groups, as they stand where
   uq_knowledge_items_hash_org is not in force: rows 1 and 2 of orgA share a
   content, row 3 shares it in orgA or in orgB or has another content, and
   row 4 was merged into row 1 by an earlier run *)
MergeQualities == {0, DefaultQualityScore, 100}

MergeRow(auth, content, quality) ==
    NewItem(auth, content, compute_content_hash(content), "general", 80,
            FALSE, quality, TRUE, 0, 0, NULL)

InitMerge ==
    /\ \E q1 \in MergeQualities, q2 \in MergeQualities, q3 \in MergeQualities,
          row3 \in { MergeRow(A1, DistillContents[1], 0),
                     MergeRow(B1, DistillContents[1], 0),
                     MergeRow(A1, DistillContents[2], 0) },
          deleted \in {NULL, 0} :
           items = << [MergeRow(A1, DistillContents[1], q1)
                          EXCEPT !.provenance_links = <<4>>],
                      [MergeRow(A1, DistillContents[1], q2)
                          EXCEPT !.deleted_at = deleted],
                      [row3 EXCEPT !.quality_score = q3],
                      [MergeRow(A1, DistillContents[1], 0)
                          EXCEPT !.expired_at = 0] >>
    /\ signals = <<>>
    /\ npending = 1
    /\ pending = { [id |-> 1, org_id |-> "orgB", source_agent_id |-> "b1",
                    content |-> <<"use", "retry", "loops">>,
                    content_hash |->
                        compute_content_hash(<<"use", "retry", "loops">>),
                    category |-> "bug_fix", confidence |-> 80,
                    tags |-> {}, contributed_at |-> 0] }
    /\ now = 0
    /\ last_run = NULL
    /\ lsh = {}
    /\ burst = [o \in Orgs |-> EmptyZset]
    /\ calls = [c \in 1..MaxCalls |-> Idle]
    /\ published = {}
    /\ subscribers = [s \in 1..MaxSubscribers |-> Closed]
    /\ webhook_endpoints = {}
    /\ celery = <<>>
    /\ casbin = NoRules
    /\ req = NoReq
    /\ resp = NoResp

NextMerge ==
    \/ Tick
    \/ \E api_key \in BOOLEAN, sanitizer \in Sanitizers :
           RunDistillation(api_key, sanitizer)
    \/ \E id \in 1..3 : DeleteKnowledge(A1, id)

SpecMerge == InitMerge /\ [][NextMerge]_vars

----------------------------------------------------------------------------
(* Every operation that writes a row of knowledge_items after its insert:
   soft delete, the conflict resolutions, the distillation merge; and both
   approval paths, the first contribution through the CLI and the second
   through the REST endpoint *)

NextRetention ==
    \/ Tick
    \/ RebuildLshIndex
    \/ AddKnowledge(A1, <<"use", "retry", "loops">>, "general", 80)
    \/ AddKnowledge(A1, <<"retry", "use", "loops">>, "bug_fix", 80)
    \/ DeleteKnowledge(A1, 1)
    \/ CliApprove(1, FALSE, NoCategory)
    \/ ReviewRead(1, "approve_contribution", "orgA", 2)
    \/ ApproveWrite(1)
    \/ DistillMerge

SpecRetention == Init /\ [][NextRetention]_vars

----------------------------------------------------------------------------
(* Properties *)

(* the ids a retrieval response hands to its caller *)
ReturnedIds(r) ==
    IF r.op = "search_knowledge" /\ ~r.isError
    THEN { r.results[k] : k \in 1..Len(r.results) }
    ELSE IF r.op = "fetch_by_id" /\ ~r.isError THEN {r.id}
    ELSE IF r.op = "list_knowledge" /\ ~r.isError
    THEN { r.contributions[k][2] :
             k \in { k \in 1..Len(r.contributions) :
                       r.contributions[k][1] = "approved" } }
    ELSE {}

(* C1: an add_knowledge call that a gate rejects (content shorter than 10
   characters, confidence outside [0,1], unknown category, missing or invalid
   bearer token, injection, burst limit, more than half of the tokens
   redacted) returns that error, creates no pending row and no knowledge
   item, and leaves every stored item as it was. *)
C1_FailsGate(r) ==
    \/ CharLen(r.content) < 10
    \/ r.confidence < 0 \/ r.confidence > 100
    \/ r.category \notin KnowledgeCategory
    \/ r.h \notin AuthContexts
    \/ \E k \in 1..Len(r.content) : r.content[k] \in InjectionTokens
    \/ 2 * Cardinality({ k \in 1..Len(r.content) : r.content[k] \in PiiTokens })
          > Len(r.content)

C1_RejectedAddWritesNothing ==
    [][ /\ (req'.op = "add_knowledge" /\ C1_FailsGate(req'))
            => (resp'.isError /\ resp'.text \in GateErrors)
        /\ (resp'.op = "add_knowledge" /\ resp'.isError /\ resp'.text \in GateErrors)
            => (items' = items /\ pending' = pending /\ npending' = npending) ]_vars

C1_Witness ==
    /\ resp.op = "add_knowledge" /\ resp.isError /\ resp.text = "rate_limit"
    /\ items # <<>>
    /\ pending # {}

(* C2: a search by tenant T returns only items of T or public items, so an
   item its owner unpublished is not returned to another tenant; a
   publish_knowledge call never changes is_public of an item of another
   tenant, and a successful one sets the flag it was given. *)
C2_SearchIsolated ==
    resp.op = "search_knowledge" /\ ~resp.isError =>
        \A id \in ReturnedIds(resp) :
            items[id].org_id = req.h.org_id \/ items[id].is_public

C2_PublishByOwnerOnly ==
    req'.op = "publish_knowledge" =>
        /\ \A i \in Ids(items) :
              (req'.h \notin AuthContexts \/ items[i].org_id # req'.h.org_id)
                  => items'[i].is_public = items[i].is_public
        /\ ~resp'.isError => items'[req'.id].is_public = req'.is_public

C2_TenantIsolation == [][ C2_SearchIsolated' /\ C2_PublishByOwnerOnly ]_vars

C2_Witness ==
    /\ resp.op = "search_knowledge" /\ ~resp.isError
    /\ req.h.org_id = "orgB"
    /\ \E id \in ReturnedIds(resp) : items[id].org_id = "orgA"
    /\ \E i \in Ids(items) :
          /\ items[i].org_id = "orgA" /\ ~items[i].is_public
          /\ items[i].deleted_at = NULL
          /\ i \notin ReturnedIds(resp)

(* C3: once delete_knowledge succeeded on an item, no search, fetch or list
   returns it, and its row stays in the table with deleted_at set. *)
C3_DeletedNotReturned ==
    \A id \in ReturnedIds(resp) : items[id].deleted_at = NULL

C3_RowKept ==
    /\ \A i \in Ids(items) :
          /\ i \in Ids(items')
          /\ items[i].deleted_at # NULL => items'[i].deleted_at # NULL
    /\ (req'.op = "delete_knowledge" /\ ~resp'.isError) =>
          /\ Len(items') = Len(items)
          /\ items'[req'.id].deleted_at # NULL
          /\ items'[req'.id].content = items[req'.id].content

C3_SoftDelete == [][ C3_DeletedNotReturned' /\ C3_RowKept ]_vars

C3_Witness ==
    /\ resp.op = "search_knowledge" /\ ~resp.isError
    /\ resp.results # <<>>
    /\ \E i \in Ids(items) :
          /\ items[i].deleted_at # NULL
          /\ items[i].org_id = req.h.org_id

(* C7: fetching by id an item that belongs to another tenant and is not
   public, or an item that is soft-deleted, returns exactly the response
   that the same call returns when no item has that id. *)
C7_HiddenLooksMissing ==
    (/\ req.op = "fetch_by_id"
     /\ req.h \in AuthContexts
     /\ req.id \in Ids(items)
     /\ \/ items[req.id].deleted_at # NULL
        \/ items[req.id].org_id # req.h.org_id /\ ~items[req.id].is_public)
        => resp = fetch_by_id(<<>>, req.id, req.h.org_id)

C7_Witness ==
    /\ req.op = "fetch_by_id"
    /\ req.h \in AuthContexts
    /\ req.id \in Ids(items)
    /\ items[req.id].org_id # req.h.org_id
    /\ ~items[req.id].is_public
    /\ items[req.id].deleted_at = NULL
    /\ resp.isError

(* C5: after a contribution is resolved as UPDATE against item A, A has
   expired_at set, and no search in search mode, with or without at_time,
   returns an item whose expired_at is set. *)
C5_ExpiredNeverReturned ==
    resp.op = "search_knowledge" /\ ~resp.isError =>
        \A id \in ReturnedIds(resp) : items[id].expired_at = NULL

(* C6: a search with at_time = T returns exactly the visible items with
   expired_at null, valid_at null or at most T, and invalid_at null or
   greater than T; so an item with valid_at = T1 and invalid_at = T2 is
   returned exactly for T1 <= T < T2. *)
C6_Eligible(row, T) ==
    /\ row.expired_at = NULL
    /\ row.valid_at = NULL \/ row.valid_at <= T
    /\ row.invalid_at = NULL \/ T < row.invalid_at

C6_PointInTime ==
    (req.op = "search_knowledge" /\ ~resp.isError /\ req.at_time # NULL) =>
        ReturnedIds(resp) =
            { i \in Ids(items) :
                /\ items[i].org_id = req.h.org_id \/ items[i].is_public
                /\ items[i].deleted_at = NULL
                /\ C6_Eligible(items[i], req.at_time) }

C6_Witness ==
    /\ req.op = "search_knowledge" /\ ~resp.isError /\ req.at_time # NULL
    /\ \E id \in ReturnedIds(resp) :
          /\ items[id].valid_at # NULL
          /\ items[id].invalid_at # NULL
          /\ items[id].valid_at <= req.at_time
          /\ req.at_time < items[id].invalid_at
    /\ \E i \in Ids(items) : i \notin ReturnedIds(resp)

(* C4: no two knowledge items that are current (not expired) and not
   deleted share the same content_hash and tenant; two different tenants
   may each hold an item with the same content_hash. *)
C4_UniqueHashPerTenant ==
    \A i, j \in Ids(items) :
        (/\ i # j
         /\ items[i].expired_at = NULL /\ items[i].deleted_at = NULL
         /\ items[j].expired_at = NULL /\ items[j].deleted_at = NULL)
            => ~(/\ items[i].content_hash = items[j].content_hash
                 /\ items[i].org_id = items[j].org_id)

C4_Witness ==
    \E i, j \in Ids(items) :
        /\ items[i].org_id # items[j].org_id
        /\ items[i].content_hash = items[j].content_hash
        /\ items[i].expired_at = NULL /\ items[i].deleted_at = NULL
        /\ items[j].expired_at = NULL /\ items[j].deleted_at = NULL
        /\ \E c \in pending : c.content_hash = items[i].content_hash

(* C10: a pending row leaves the queue only in an approval or a rejection;
   a successful approval removes the pending row it names and adds exactly
   one knowledge item with that row's tenant, content, content_hash and
   contributed_at; a rejection adds no item; so a rejected contribution
   never becomes an item and no contribution yields two items, however
   approve and reject requests interleave. *)
C10_PromoteOrReject ==
    [][ /\ (\E c \in pending : c \notin pending')
            => req'.op \in {"approve_contribution", "reject_contribution"}
        /\ (resp'.op = "approve_contribution" /\ ~resp'.isError)
            => \E c \in pending :
                  /\ c.id = req'.id
                  /\ pending' = pending \ {c}
                  /\ Len(items') = Len(items) + 1
                  /\ SubSeq(items', 1, Len(items)) = items
                  /\ items'[Len(items')].org_id = c.org_id
                  /\ items'[Len(items')].content = c.content
                  /\ items'[Len(items')].content_hash = c.content_hash
                  /\ items'[Len(items')].contributed_at = c.contributed_at
        /\ req'.op = "reject_contribution" => items' = items ]_vars

(* C8: with burst threshold B and window W, when B+1 requests of one tenant
   that pass the earlier gates arrive within W seconds, the first B are let
   through and the (B+1)-th is rejected with the rate-limit error, and in no
   window of W seconds are more than B requests of the tenant let through,
   also when the requests interleave between the add, prune and count
   steps. *)
C8_LetThrough == { s \in 1..MaxCalls : calls[s].pc \in {"passed", "done"} }

C8_Decided == C8_LetThrough \cup { s \in 1..MaxCalls : calls[s].pc = "flagged" }

C8_NoOverAdmission ==
    \A w \in 0..MaxTime :
        Cardinality({ s \in C8_LetThrough :
                        w <= calls[s].now /\ calls[s].now < w + BurstWindowSeconds })
            <= BurstThreshold

C8_BurstGate ==
    /\ C8_NoOverAdmission
    /\ (/\ \A s \in 1..MaxCalls : calls[s] = Idle \/ s \in C8_Decided
        /\ \A s, u \in C8_Decided :
              calls[s].now - calls[u].now < BurstWindowSeconds)
          => Cardinality(C8_LetThrough) =
                 IF Cardinality(C8_Decided) < BurstThreshold
                 THEN Cardinality(C8_Decided) ELSE BurstThreshold

(* C9: report_outcome calls with the same item_id and run_id leave exactly
   one outcome signal row for that pair: the first call inserts one row and
   increments the matching counter once, every later call returns
   already_recorded with the first row's id and changes nothing, also when
   the calls run concurrently. *)
C9_OutcomeRows(item_id, run_id) ==
    { k \in DOMAIN signals :
        /\ signals[k].knowledge_item_id = item_id
        /\ signals[k].run_id = run_id
        /\ signals[k].signal_type \in {"outcome_solved", "outcome_not_helpful"} }

C9_OneSignalPerRun ==
    /\ \A k \in DOMAIN signals :
          Cardinality(C9_OutcomeRows(signals[k].knowledge_item_id,
                                     signals[k].run_id)) = 1
    /\ \A i \in Ids(items) :
          items[i].helpful_count + items[i].not_helpful_count
              <= Cardinality({ signals[k].run_id :
                                 k \in { k \in DOMAIN signals :
                                           signals[k].knowledge_item_id = i } })

(* C11: two reviewers never hold the same pending row at the same time: a
   row a reviewer fetched and has not yet approved, rejected or skipped is
   not returned to another reviewer's fetch; and a fetch returns every row
   of the tenant that no open fetch has locked, up to its limit, so a row
   released without a decision is returned again. *)
C11_Held(s) ==
    IF calls[s].pc \in {"fetch_pending", "review"}
    THEN { calls[s].batch[k].id : k \in calls[s].idx..Len(calls[s].batch) }
    ELSE {}

C11_NoSharedRow ==
    \A s, u \in 1..MaxCalls : s # u => C11_Held(s) \cap C11_Held(u) = {}

C11_ReleasedRejoin ==
    \A s \in 1..MaxCalls :
        (calls[s].pc # "fetch_pending" /\ calls'[s].pc = "fetch_pending") =>
            LET free == { c.id : c \in { c \in pending :
                              /\ c.org_id = calls'[s].org_id
                              /\ \A u \in 1..MaxCalls :
                                    calls[u].pc = "fetch_pending" =>
                                        \A k \in 1..Len(calls[u].batch) :
                                            calls[u].batch[k].id # c.id } }
                got == { calls'[s].batch[k].id : k \in 1..Len(calls'[s].batch) }
            IN  got \subseteq free /\ (free # {} => got # {})

C11_ExclusiveReview == [][ C11_NoSharedRow' /\ C11_ReleasedRejoin ]_vars

(* C12: when the conflict resolution of an add_knowledge call is
   FLAGGED_FOR_REVIEW, the call adds no knowledge item, also under a matching
   auto-approve rule, and queues the contribution as a pending row carrying
   the conflict_flagged tag. *)
C12_FlaggedGoesToQueue ==
    [][ (req'.op = "add_knowledge" /\ req'.resolution.action = "FLAGGED_FOR_REVIEW")
            => /\ items' = items
               /\ ~resp'.isError
               /\ resp'.status = "queued"
               /\ \E c \in pending' \ pending :
                     /\ c.id = resp'.contribution_id
                     /\ "conflict_flagged" \in c.tags ]_vars

(* C13: when the conflict resolution of an add_knowledge call is UPDATE
   against item A of the caller's tenant, then after the call A has
   expired_at set and the new content is stored as a current knowledge item;
   A is never left expired with the new content absent from the table. *)
C13_UpdateSupersedes ==
    [][ (/\ req'.op = "add_knowledge"
         /\ req'.resolution.action = "UPDATE"
         /\ items[req'.resolution.existing_item_id].org_id = req'.h.org_id)
            => /\ items'[req'.resolution.existing_item_id].expired_at # NULL
               /\ \E i \in Ids(items') :
                     /\ items'[i].content = strip_pii(req'.content).cleaned
                     /\ items'[i].org_id = req'.h.org_id
                     /\ items'[i].expired_at = NULL ]_vars

(* C14: when the conflict resolution of an add_knowledge call is
   VERSION_FORK against item A, A gets invalid_at = now and a new item is
   inserted with valid_at = now, so that at every instant T exactly one of
   the two is valid in world time. *)
C14_WorldValid(row, T) ==
    /\ row.valid_at = NULL \/ row.valid_at <= T
    /\ row.invalid_at = NULL \/ T < row.invalid_at

C14_ForkSplitsTime ==
    [][ (req'.op = "add_knowledge" /\ req'.resolution.action = "VERSION_FORK")
            => LET A == req'.resolution.existing_item_id
               IN  /\ items'[A].invalid_at = now
                   /\ Len(items') = Len(items) + 1
                   /\ items'[Len(items')].valid_at = now
                   /\ \A T \in 0..(MaxTime + 1) :
                         C14_WorldValid(items'[A], T)
                             # C14_WorldValid(items'[Len(items')], T) ]_vars

(* C15: an add_knowledge call that stores its contribution inserts, under a
   matching auto-approve rule, one knowledge item with approved_at equal to
   contributed_at and no pending row and returns auto_approved with the
   item's id; without a matching rule it inserts one pending row and no
   item and returns queued. *)
C15_Stored ==
    /\ req'.op = "add_knowledge"
    /\ ~resp'.isError
    /\ resp'.status # "duplicate_detected"

C15_AutoApproveOrQueue ==
    [][ C15_Stored =>
          IF <<req'.h.org_id, req'.category>> \in AutoApproveRule
          THEN /\ Len(items') = Len(items) + 1
               /\ items'[Len(items')].approved_at = items'[Len(items')].contributed_at
               /\ pending' = pending
               /\ resp'.status = "auto_approved"
               /\ resp'.contribution_id = Len(items')
          ELSE /\ Len(items') = Len(items)
               /\ Cardinality(pending' \ pending) = 1
               /\ pending \subseteq pending'
               /\ resp'.status = "queued" ]_vars

----------------------------------------------------------------------------
(* C16: an item's retrieval_count rises by exactly one for each search that
   returned it: every search that returns an id leaves one recording task
   holding it, every recording task raises the counter of each of its ids by
   one on the row as it is then, so that tasks of concurrent searches
   returning the same item add up, and nothing else moves the counter *)
C16_Counted(tbl, cs, id) == tbl[id].retrieval_count + InFlight(cs, id)

C16_Returned(r, id) ==
    /\ r.op = "search_knowledge"
    /\ ~r.isError
    /\ \E k \in 1..Len(r.results) : r.results[k] = id

C16_Ran(s, id) ==
    /\ calls[s].pc = "record_retrieval_signals"
    /\ calls'[s].pc # "record_retrieval_signals"
    /\ \E k \in 1..Len(calls[s].item_ids) : calls[s].item_ids[k] = id

C16_RetrievalCounted ==
    [][ \A id \in Ids(items') :
          /\ C16_Counted(items', calls', id) =
                 (IF id \in Ids(items) THEN C16_Counted(items, calls, id) ELSE 0)
                 + (IF C16_Returned(resp', id) THEN 1 ELSE 0)
          /\ id \in Ids(items) =>
                 items'[id].retrieval_count =
                     items[id].retrieval_count
                     + Cardinality({ s \in DOMAIN calls : C16_Ran(s, id) }) ]_vars

(* the tasks of two searches that ran concurrently and returned the same two
   items have both run *)
C16_Witness ==
    /\ Len(items) = 2
    /\ \A id \in Ids(items) : items[id].retrieval_count = 2
    /\ \A s \in DOMAIN calls : calls[s] = Idle

----------------------------------------------------------------------------
(* C17: in every state, and so after every run of the signal aggregator over
   any counters, ages and signals, the quality_score of every knowledge item
   lies in [0, 1] *)
C17_QualityInUnitInterval ==
    \A i \in Ids(items) : items[i].quality_score >= 0 /\ items[i].quality_score <= 100

(* the aggregator has recomputed a stale, expired item all of whose signals
   are contradictions, where the weighted sum is negative *)
C17_Witness ==
    /\ resp.op = "aggregate_quality_signals"
    /\ resp.items_updated = 1
    /\ items[1].quality_score = 0
    /\ items[1].expired_at # NULL
    /\ \A k \in DOMAIN signals : signals[k].signal_type = "contradiction"

----------------------------------------------------------------------------
(* C18: of two items that both appear in the result of one search and are
   identical except for quality_score (same tenant, visibility, category,
   confidence and temporal fields, same distance to the query and same text
   rank), the one with the higher quality_score is ranked at or above the
   other *)
C18_Alike(x, y, query) ==
    /\ x.org_id = y.org_id
    /\ x.is_public = y.is_public
    /\ x.category = y.category
    /\ x.confidence = y.confidence
    /\ x.embedding = y.embedding
    /\ x.valid_at = y.valid_at
    /\ x.invalid_at = y.invalid_at
    /\ x.expired_at = y.expired_at
    /\ CosineDistance(query, x.content) = CosineDistance(query, y.content)
    /\ TsMatch(query, x.content) = TsMatch(query, y.content)
    /\ TsRank(query, x.content) = TsRank(query, y.content)

C18_QualityMonotone ==
    (resp.op = "search_knowledge" /\ ~resp.isError) =>
        \A a, b \in 1..Len(resp.results) :
            (/\ a < b
             /\ C18_Alike(items[resp.results[a]], items[resp.results[b]], req.query))
                => items[resp.results[a]].quality_score
                       >= items[resp.results[b]].quality_score

----------------------------------------------------------------------------
(* C19: the sanitizer returns an input made only of code fences and
   whitespace unchanged, with should_reject false; for every input,
   extracting the code spans and reinjecting them gives the input back, and
   the sanitizer's output holds no placeholder key *)
C19_Keys == { CodeBlockKeys[k] : k \in DOMAIN CodeBlockKeys }
                \cup { InlineKeys[k] : k \in DOMAIN InlineKeys }

C19_CodeOnly(text) ==
    /\ \E i \in 1..Len(text) : text[i] = BT
    /\ \A i \in 1..Len(replace_fenced(text, 1, [text |-> <<>>, map |-> <<>>]).text) :
           replace_fenced(text, 1, [text |-> <<>>, map |-> <<>>]).text[i] \in C19_Keys \cup {" "}

C19_CodeOnlyUnchanged ==
    (resp.op = "strip" /\ C19_CodeOnly(req.text)) =>
        resp.cleaned = req.text /\ ~resp.should_reject

C19_RoundTrip ==
    resp.op = "strip" =>
        /\ reinject_code_blocks(extract_code_blocks(req.text).text,
                                extract_code_blocks(req.text).map) = req.text
        /\ \A i \in 1..Len(resp.cleaned) : resp.cleaned[i] \notin C19_Keys

C19_CodeSpansVerbatim == C19_CodeOnlyUnchanged /\ C19_RoundTrip

----------------------------------------------------------------------------
(* C20: every approval that commits a knowledge item (CLI approve, REST
   approve, auto-approve at ingest) publishes on knowledge_published a
   notification with the item's id, is_public, tenant, category and title,
   and no notification is published for an item that is not committed *)
C20_Notified(tbl, channel, id) ==
    \E n \in channel :
        /\ n.id = id
        /\ n.is_public = tbl[id].is_public
        /\ n.org_id = tbl[id].org_id
        /\ n.category = tbl[id].category
        /\ n.title = Title(tbl[id].content)

C20_ApprovalNotifies ==
    [][ /\ \A id \in Ids(items') \ Ids(items) : C20_Notified(items', published', id)
        /\ \A n \in published' : n.id \in Ids(items') ]_vars

----------------------------------------------------------------------------
(* C21: an SSE subscriber authenticated for a tenant is sent, in order, every
   notification it has taken from its queue that has is_public = true, as a
   public event, and every one with is_public = false whose org is its own,
   as a private event, and nothing else but pings: a private notification
   of another tenant is never delivered to it. *)

C21_Consumed(sub) == SubSeq(sub.heard, 1, Len(sub.heard) - Len(sub.queue))

C21_Events(sub) == SelectSeq(sub.sent, LAMBDA e : e.event # "ping")

C21_Due(sub) ==
    SelectSeq(C21_Consumed(sub),
              LAMBDA n : n.is_public \/ n.org_id = sub.org_id)

C21_FeedRouting ==
    \A s \in DOMAIN subscribers :
        subscribers[s].pc = "listening" =>
            LET sub == subscribers[s]
                due == C21_Due(sub)
            IN  C21_Events(sub) =
                    [i \in 1..Len(due) |->
                        [event |-> IF due[i].is_public THEN "public"
                                   ELSE "private",
                         data |-> due[i]]]

C21_Witness ==
    \E s \in DOMAIN subscribers :
        /\ subscribers[s].pc = "listening"
        /\ subscribers[s].org_id = "orgA"
        /\ \E i \in 1..Len(C21_Consumed(subscribers[s])) :
               LET n == C21_Consumed(subscribers[s])[i]
               IN  ~n.is_public /\ n.org_id = "orgB"
        /\ \E i \in 1..Len(subscribers[s].sent) :
               /\ subscribers[s].sent[i].event = "public"
               /\ subscribers[s].sent[i].data.org_id = "orgB"

----------------------------------------------------------------------------
(* C22: a call of dispatch_webhooks for an event of a tenant enqueues exactly
   one deliver_webhook task for each endpoint of that tenant that is active
   and whose event_types is null or contains the event type, and none for
   any other endpoint. *)

(* the calls of dispatch_webhooks: a committed approval, a REST rejection *)
C22_Dispatches ==
    /\ req'.op \in {"approve_contribution", "reject_contribution"}
    /\ ~resp'.isError
    /\ ~(req'.op = "reject_contribution" /\ req'.via = "cli")

C22_Event ==
    IF req'.op = "approve_contribution" THEN "knowledge.approved"
    ELSE "knowledge.rejected"

C22_Tenant ==
    IF req'.op = "approve_contribution" THEN items'[resp'.item_id].org_id
    ELSE calls[CHOOSE s \in DOMAIN calls :
                   calls[s].pc = "reject_contribution" /\ calls'[s] = Idle].org_id

C22_Subscribed(e, tenant, event) ==
    /\ e.org_id = tenant
    /\ e.is_active
    /\ e.event_types = JsonNull \/ event \in e.event_types.types

C22_Enqueued(e) ==
    Cardinality({ i \in Len(celery) + 1 .. Len(celery') :
                    celery'[i].url = e.url })

C22_DispatchPerEndpoint ==
    [][C22_Dispatches =>
          \A e \in webhook_endpoints :
              C22_Enqueued(e) =
                  IF C22_Subscribed(e, C22_Tenant, C22_Event) THEN 1 ELSE 0]_vars

----------------------------------------------------------------------------
(* C23: deliver_webhook makes at most 4 POST attempts for one enqueued task
   (the first and at most 3 retries), makes no attempt after a successful
   one, and every task ends, delivered or dropped. *)

C23_Enqueued(i) == i \in DOMAIN celery

C23_Ended(i) ==
    i \in DOMAIN celery /\ celery[i].state \in {"SUCCESS", "FAILURE"}

C23_AtMostFourPosts ==
    \A i \in DOMAIN celery : celery[i].posts <= 4

C23_NoPostAfterSuccess ==
    \A i \in DOMAIN celery :
        celery[i].state = "SUCCESS" => celery'[i] = celery[i]

C23_BoundedRetry ==
    /\ []C23_AtMostFourPosts
    /\ [][C23_NoPostAfterSuccess]_vars
    /\ \A i \in 1..MaxEndpoints : C23_Enqueued(i) ~> C23_Ended(i)

C23_Witness ==
    \E i, j \in DOMAIN celery :
        /\ celery[i].posts = 4 /\ celery[i].state = "FAILURE"
        /\ celery[j].posts = 4 /\ celery[j].state = "SUCCESS"

----------------------------------------------------------------------------
(* C24: manage_roles changes the role bindings or the policy rules only when
   enforce(caller, caller's org, namespace:<org>, "*") holds at the call,
   and every rule or binding it adds or removes is in the domain of the
   caller's own org. *)

C24_Changed(old, new) == (old \ new) \cup (new \ old)

C24_AdminGated ==
    [][casbin' # casbin =>
          /\ req'.op = "manage_roles"
          /\ req'.auth \in AuthContexts
          /\ enforce(casbin, req'.auth.agent_id, req'.auth.org_id,
                     <<"namespace", req'.auth.org_id>>, "*")
          /\ \A r \in C24_Changed(casbin.p, casbin'.p) :
                 r[2] = req'.auth.org_id
          /\ \A b \in C24_Changed(casbin.g, casbin'.g) :
                 b[3] = req'.auth.org_id]_vars

C24_Witness ==
    /\ req.op = "manage_roles"
    /\ req.auth.agent_id = "a2"
    /\ req.action = "add_permission"
    /\ ~resp.isError
    /\ <<"b1", "orgA", <<"namespace", "orgB">>, "*">> \in casbin.p
    /\ <<"a2", "admin", "orgA">> \in casbin.g

----------------------------------------------------------------------------
(* C25: no operation removes a row of knowledge_items or changes its
   contributed_at: a soft delete, a supersede, an invalidation and the
   distillation merge leave every column of the row as it was but
   deleted_at, expired_at, invalid_at (and the provenance links kept in the
   tags of the canonical row of a merge), and an approval copies
   contributed_at from the pending contribution. *)

C25_Retired(old, new) ==
    [new EXCEPT !.deleted_at = old.deleted_at,
                !.expired_at = old.expired_at,
                !.invalid_at = old.invalid_at,
                !.provenance_links = old.provenance_links] = old

C25_RowsKept ==
    /\ Len(items') >= Len(items)
    /\ \A i \in 1..Len(items) :
           /\ items'[i].contributed_at = items[i].contributed_at
           /\ req'.op \in {"delete_knowledge", "add_knowledge", "run_distillation"}
                  => C25_Retired(items[i], items'[i])

C25_ApprovalCopies ==
    (req'.op = "approve_contribution" /\ ~resp'.isError) =>
        \A c \in pending :
            c.id = resp'.contribution_id =>
                items'[resp'.item_id].contributed_at = c.contributed_at

C25_AuditRetention == [][C25_RowsKept /\ C25_ApprovalCopies]_vars

C25_Witness ==
    \E i, j \in 1..Len(items) :
        /\ items[i].contributed_at < items[i].approved_at
        /\ items[i].deleted_at # NULL
        /\ items[j].expired_at # NULL \/ items[j].invalid_at # NULL

----------------------------------------------------------------------------
(* C26: the quality_score of a knowledge item at its first ingest, by the
   auto-approve path or by the approval of a pending contribution, is
   min(1, confidence * 0.5). *)

C26_Prior(confidence) ==
    IF (confidence * 50) \div 100 > 100 THEN 100 ELSE (confidence * 50) \div 100

C26_InitialQuality ==
    [][Len(items') > Len(items) =>
          \A i \in Len(items) + 1 .. Len(items') :
              items'[i].quality_score = C26_Prior(items'[i].confidence)]_vars

(* C27: decode_cursor(encode_cursor(n)) = n for every offset n >= 0, every
   cursor that is not the encoding of an offset decodes to 0, so that the
   decoded offset is never negative, and the limit search applies never
   exceeds the configured maximum. *)
C27_RoundTrip ==
    req.op = "search_knowledge" =>
        \A n \in 0..MaxOffset :
            req.cursor = encode_cursor(n) => decode_cursor(req.cursor) = n

C27_LimitClamped ==
    req.op = "search_knowledge" => min_limit(req.limit) <= MaxSearchLimit

C27_IsEncoding(cursor) == \E n \in 0..MaxOffset : cursor = encode_cursor(n)

C27_InvalidDecodesToZero ==
    req.op = "search_knowledge" /\ ~C27_IsEncoding(req.cursor) =>
        decode_cursor(req.cursor) = 0

C27_NeverNegative ==
    req.op = "search_knowledge" => decode_cursor(req.cursor) >= 0

C27_Cursor ==
    /\ C27_RoundTrip
    /\ C27_InvalidDecodesToZero
    /\ C27_NeverNegative
    /\ C27_LimitClamped

(* a page was read past the first one through an encoded offset, with a
   limit above the maximum on another request *)
C27_PagedWitness ==
    /\ req.op = "search_knowledge"
    /\ req.cursor = encode_cursor(1)
    /\ ~resp.isError /\ Len(resp.results) = 1

(* C28: every knowledge item created by an approval (CLI or REST) or by the
   auto-approve path is in the MinHash-LSH index afterwards, so that a later
   near-identical contribution of the tenant can pass dedup Stage 2. *)
C28_IndexedOnCreation ==
    [][\A i \in Ids(items') \ Ids(items) : i \in lsh']_vars

(* C29: in Stage 3, when the LLM answers is_duplicate = true for at least
   one of the candidates put to it, run_dedup_pipeline returns DUPLICATE with
   duplicate_of the confirmed candidate of highest confidence, whatever
   confidences the LLM reports; otherwise it returns ADD. *)
C29_Confirmed == { k \in DOMAIN req.llm : req.llm[k].is_duplicate }

C29_Best ==
    { req.llm_candidates[k] : k \in
        { k \in C29_Confirmed :
            \A j \in C29_Confirmed : req.llm[j].confidence <= req.llm[k].confidence } }

C29_BestConfirmed ==
    req.op = "run_dedup_pipeline" /\ "llm" \in TokenSet(resp.result.stages_run) =>
        IF C29_Confirmed # {}
        THEN /\ resp.result.action = "DUPLICATE"
             /\ resp.result.duplicate_of \in C29_Best
        ELSE resp.result.action = "ADD"

(* the same with every confirming answer carrying a confidence above 0 *)
C29_BestConfirmedPositive ==
    (req.op = "run_dedup_pipeline"
       /\ \A k \in C29_Confirmed : req.llm[k].confidence > 0) => C29_BestConfirmed

C29_PositiveWitness ==
    /\ req.op = "run_dedup_pipeline"
    /\ Len(req.llm) = 2
    /\ req.llm[1] = [is_duplicate |-> TRUE, confidence |-> 50]
    /\ req.llm[2] = [is_duplicate |-> TRUE, confidence |-> 90]
    /\ resp.result.duplicate_of = req.llm_candidates[2]

(* C30: run_dedup_pipeline returns DUPLICATE only for a candidate that
   survived all three stages (cosine distance below 0.35, in the result of
   the MinHash-LSH query, confirmed by the LLM); as soon as a stage leaves no
   candidate it returns ADD without running the later stages, and stages_run
   lists exactly the stages executed, in order. *)
C30_Stage1 ==
    { i \in Ids(items) :
        /\ items[i].org_id = req.org_id \/ items[i].is_public
        /\ items[i].embedding
        /\ items[i].deleted_at = NULL /\ items[i].expired_at = NULL
        /\ CosineDistance(req.content, items[i].content) < CosineThreshold }

C30_Stage2 ==
    { i \in C30_Stage1 :
        i \in lsh /\ Jaccard(req.content, items[i].content) >= MinhashThreshold }

C30_Stage3 ==
    { i \in C30_Stage2 :
        \E k \in DOMAIN req.llm :
            req.llm_candidates[k] = i /\ req.llm[k].is_duplicate }

C30_ThreeStages ==
    req.op = "run_dedup_pipeline" =>
        /\ resp.result.action = "DUPLICATE" => resp.result.duplicate_of \in C30_Stage3
        /\ C30_Stage1 = {} =>
               /\ resp.result.action = "ADD"
               /\ resp.result.stages_run = <<"cosine">>
               /\ req.llm = <<>>
        /\ C30_Stage1 # {} /\ C30_Stage2 = {} =>
               /\ resp.result.action = "ADD"
               /\ resp.result.stages_run = <<"cosine", "minhash">>
               /\ req.llm = <<>>
        /\ C30_Stage2 # {} =>
               /\ resp.result.stages_run = <<"cosine", "minhash", "llm">>
               /\ Len(req.llm) = NumLlmCandidates(req.llm_candidates)
               /\ TokenSet(req.llm_candidates) \subseteq C30_Stage2

(* two candidates reached the LLM, which denied the first with the higher
   confidence and confirmed the second *)
C30_Witness ==
    /\ req.op = "run_dedup_pipeline"
    /\ Len(req.llm) = 2
    /\ req.llm[1] = [is_duplicate |-> FALSE, confidence |-> 90]
    /\ req.llm[2] = [is_duplicate |-> TRUE, confidence |-> 50]
    /\ resp.result.action = "DUPLICATE"
    /\ resp.result.duplicate_of = req.llm_candidates[2]

(* Stage 1 found a candidate that Stage 2 dropped *)
C30_ShortCircuitWitness ==
    /\ req.op = "run_dedup_pipeline"
    /\ C30_Stage1 # {} /\ C30_Stage2 = {} /\ lsh # {}
    /\ resp.result.stages_run = <<"cosine", "minhash">>

(* C31: in add_knowledge the gates run in the order validation, caller
   identity, injection scan, burst gate, PII sanitizer: a contribution the
   injection scan rejects is not recorded in the tenant's burst window, and
   one the burst gate rejects reaches neither the sanitizer nor the dedup
   pipeline nor the database. *)
C31_Invalid(r) ==
    \/ CharLen(r.content) < MinContentLength
    \/ ~(0 <= r.confidence /\ r.confidence <= 100)
    \/ r.category \notin KnowledgeCategory

C31_NothingStored ==
    items' = items /\ pending' = pending /\ npending' = npending /\ lsh' = lsh

C31_GateOrder ==
    [][req'.op = "add_knowledge" =>
         /\ C31_Invalid(req') =>
                /\ resp'.isError
                /\ resp'.text \in {"too_short", "bad_confidence", "bad_category"}
                /\ burst' = burst /\ C31_NothingStored
         /\ ~C31_Invalid(req') /\ req'.h \notin AuthContexts =>
                /\ resp'.isError /\ resp'.text = "auth"
                /\ burst' = burst /\ C31_NothingStored
         /\ ~C31_Invalid(req') /\ req'.h \in AuthContexts /\ is_injection(req'.content) =>
                /\ resp'.isError /\ resp'.text = "injection"
                /\ burst' = burst /\ C31_NothingStored
         /\ resp'.isError /\ resp'.text = "rate_limit" =>
                /\ ZCard(burst'[req'.h.org_id]) > BurstThreshold
                /\ C31_NothingStored
         /\ resp'.isError /\ resp'.text = "too_redacted" =>
                /\ ZCard(burst'[req'.h.org_id]) <= BurstThreshold
                /\ C31_NothingStored]_vars

(* a text the sanitizer would reject was stopped by the burst gate *)
C31_Witness ==
    /\ req.op = "add_knowledge"
    /\ strip_pii(req.content).should_reject
    /\ resp.isError /\ resp.text = "rate_limit"

(* an injection was rejected while the tenant's window held entries *)
C31_InjectionWitness ==
    /\ req.op = "add_knowledge"
    /\ resp.isError /\ resp.text = "injection"
    /\ ZCard(burst["orgA"]) = BurstThreshold

(* C32: when the LLM is not configured, fails, returns unparsable output or
   times out, Stage 3 confirms no duplicate and the resolver returns ADD, so
   add_knowledge completes with queued or auto_approved and no existing
   knowledge item is expired or invalidated. *)
C32_LlmFailureFallsBackToAdd ==
    [][req'.op = "add_knowledge" /\ ~resp'.isError =>
         /\ resp'.status \in {"queued", "auto_approved"}
         /\ req'.resolution.action \in {"none", "ADD"}
         /\ \A i \in Ids(items) :
                /\ i \in Ids(items')
                /\ items'[i].expired_at = items[i].expired_at
                /\ items'[i].invalid_at = items[i].invalid_at]_vars

(* Stage 3 confirmed item 1 as a duplicate, the call of the resolver failed,
   and the contribution was stored beside the item *)
C32_Witness ==
    /\ req.op = "add_knowledge"
    /\ req.resolution.action = "ADD" /\ req.resolution.existing_item_id = 1
    /\ ~resp.isError /\ resp.status = "auto_approved"
    /\ Len(items) = 2
    /\ items[1].expired_at = NULL /\ items[1].invalid_at = NULL

(* C33: after a search response is built, one retrieval signal is appended
   for each returned item id, so that the next aggregator run recomputes the
   score of every item retrieved since the previous run. *)
C33_Recorded(slot) ==
    /\ calls[slot].pc = "record_retrieval_signals"
    /\ calls'[slot] = Idle

C33_RetrievalSignalAppended ==
    [][\A slot \in DOMAIN calls :
         C33_Recorded(slot) =>
             \A n \in DOMAIN calls[slot].item_ids :
                 \E k \in DOMAIN signals' \ DOMAIN signals :
                     /\ signals'[k].knowledge_item_id = calls[slot].item_ids[n]
                     /\ signals'[k].signal_type = "retrieval"]_vars

(* C34: each content_hash appears at most once in a returned search page,
   and when the page holds both the caller's own private item and another
   tenant's public item with the same content_hash, the one kept is the
   caller's private item, whatever the quality scores of the two. *)
C34_Searched == req.op = "search_knowledge" /\ ~resp.isError

C34_Returned == { resp.results[k] : k \in DOMAIN resp.results }

C34_HashOnce ==
    C34_Searched =>
        \A j, k \in DOMAIN resp.results :
            j # k => items[resp.results[j]].content_hash
                       # items[resp.results[k]].content_hash

C34_Twins(i, j) ==
    /\ items[i].org_id = req.h.org_id /\ ~items[i].is_public
    /\ items[j].org_id # req.h.org_id /\ items[j].is_public
    /\ items[i].content_hash = items[j].content_hash

(* the page is the whole ranking when nothing is skipped and the limit
   reaches the number of rows *)
C34_WholeRanking == req.cursor = NoCursor /\ min_limit(req.limit) >= Len(items)

C34_PrivateKept ==
    C34_Searched /\ C34_WholeRanking =>
        \A i, j \in Ids(items) :
            C34_Twins(i, j) /\ (i \in C34_Returned \/ j \in C34_Returned) =>
                i \in C34_Returned

C34_PrivateFirst == C34_HashOnce /\ C34_PrivateKept

(* C40: following next_cursor from the first page until it is null visits
   every ranked item of an unchanged result set: next_cursor is null only
   when no ranked item remains beyond offset + limit, also when the
   deduplication by content_hash has reduced total_found. *)
C40_Ranked ==
    { i \in Ids(items) :
        /\ SearchFilter(items[i], req.h.org_id, req.category, req.at_time)
        /\ items[i].embedding \/ TsMatch(req.query, items[i].content) }

C40_Offset == IF req.cursor # NoCursor THEN decode_cursor(req.cursor) ELSE 0

C40_CursorUntilExhausted ==
    C34_Searched /\ resp.next_cursor = NoCursor =>
        C40_Offset + min_limit(req.limit) >= Cardinality(C40_Ranked)


(* C35: every cluster summary that run_distillation inserts as a knowledge
   item is the sanitizer's output for the generated text, and a summary for
   which the sanitizer returns should_reject is never inserted; this holds on
   every path, a failure of the sanitizer included. *)
C35_Inserted == (Len(items) + 1)..Len(items')

C35_IsSanitized(row, replies) ==
    \E k \in DOMAIN replies :
        /\ ~strip_pii(replies[k]).should_reject
        /\ row.content = strip_pii(replies[k]).cleaned

C35_SanitizedWhenAvailable ==
    [][req'.op = "run_distillation" /\ req'.sanitizer = "available" =>
           \A i \in C35_Inserted : C35_IsSanitized(items'[i], req'.replies)]_vars

C35_SummarySanitized ==
    [][req'.op = "run_distillation" =>
           \A i \in C35_Inserted : C35_IsSanitized(items'[i], req'.replies)]_vars

C35_NoPiiInSummaries ==
    \A i \in Ids(items) :
        items[i].source_agent_id = "distillation" =>
            TokenSet(items[i].content) \cap PiiTokens = {}

(* C36: the merge step of run_distillation leaves, in every group of current
   non-deleted items that share (content_hash, org_id), one member current,
   which has the highest quality_score of the group; every other member gets
   expired_at set and its id appended to the provenance links of that
   member; the items outside the groups are unchanged. *)
C36_Merged ==
    /\ req'.op = "run_distillation"
    /\ (resp'.isError \/ resp'.status # "skipped")

C36_Links(row) == { row.provenance_links[k] : k \in DOMAIN row.provenance_links }

C36_Canonical(g, c) ==
    /\ items'[c] = [items[c] EXCEPT !.provenance_links = items'[c].provenance_links]
    /\ \A j \in g : items[j].quality_score <= items[c].quality_score
    /\ Len(items'[c].provenance_links)
           = Len(items[c].provenance_links) + Cardinality(g) - 1
    /\ SubSeq(items'[c].provenance_links, 1, Len(items[c].provenance_links))
           = items[c].provenance_links
    /\ \A j \in g \ {c} :
           /\ items'[j] = [items[j] EXCEPT !.expired_at = now]
           /\ j \in C36_Links(items'[c])

C36_MergeKeepsBest ==
    [][C36_Merged =>
           /\ \A g \in duplicate_groups(items) : \E c \in g : C36_Canonical(g, c)
           /\ \A i \in Ids(items) \ UNION duplicate_groups(items) :
                  items'[i] = items[i]]_vars

(* a run has merged the three rows of a group into a row that already held a
   link: the other two are expired and linked after the old link *)
C36_Witness ==
    /\ req.op = "run_distillation"
    /\ ~resp.isError
    /\ resp.status = "completed"
    /\ \E c \in Ids(items) :
           /\ items[c].expired_at = NULL
           /\ Len(items[c].provenance_links) = 3
           /\ \A j \in C36_Links(items[c]) : items[j].expired_at # NULL
           /\ \E j \in C36_Links(items[c]) :
                  items[j].quality_score < items[c].quality_score

(* C37: the existing item that add_knowledge hands to the conflict resolver,
   and that an UPDATE or VERSION_FORK resolution then expires or
   invalidates, is the item the dedup pipeline reported as duplicate_of. *)
C37_Resolved == req'.op = "add_knowledge" /\ req'.resolution.action # "none"

C37_Written == { i \in Ids(items) : items'[i] # items[i] }

C37_ResolverGetsBestMatch ==
    [][C37_Resolved =>
           req'.resolution.existing_item_id = req'.resolution.duplicate_of]_vars

C37_BestMatchSuperseded ==
    [][C37_Resolved /\ req'.resolution.action \in {"UPDATE", "VERSION_FORK"} =>
           C37_Written \subseteq {req'.resolution.duplicate_of}]_vars

C37_ResolvesBestMatch ==
    [][C37_Resolved =>
           /\ req'.resolution.existing_item_id = req'.resolution.duplicate_of
           /\ C37_Written \subseteq {req'.resolution.duplicate_of}]_vars

(* C38: an add_knowledge call never modifies a knowledge item of another
   tenant: when the matched duplicate is a public item of a different
   tenant, an UPDATE or VERSION_FORK resolution leaves that item, its
   expired_at and invalid_at included, as it was. *)
C38_ForeignItemsUntouched ==
    [][req'.op = "add_knowledge" =>
           \A i \in Ids(items) :
               items[i].org_id # req'.h.org_id => items'[i] = items[i]]_vars

(* orgA's contribution was resolved as UPDATE or VERSION_FORK against the
   public item of orgB and stored, and that item is still current and valid *)
C38_Witness ==
    /\ req.op = "add_knowledge"
    /\ ~resp.isError
    /\ req.h.org_id = "orgA"
    /\ req.resolution.action \in {"UPDATE", "VERSION_FORK"}
    /\ items[req.resolution.existing_item_id].org_id = "orgB"
    /\ items[req.resolution.existing_item_id].is_public
    /\ items[req.resolution.existing_item_id].expired_at = NULL
    /\ items[req.resolution.existing_item_id].invalid_at = NULL

(* C39: every committed quality signal is taken into account by some run of
   the aggregator: none is skipped for good because it was committed while a
   run was in progress, or because its created_at is not later than the
   quality_aggregation_last_run that run stored. *)
C39_Counted(k) ==
    /\ resp.op = "aggregate_quality_signals"
    /\ k \in resp.counted

C39_EverySignalAggregated ==
    \A k \in 1..MaxSignals : (k \in DOMAIN signals) ~> C39_Counted(k)

C39_CommittedSignalIsNew ==
    [][Len(signals') > Len(signals) =>
           signals'[Len(signals')].created_at > last_run']_vars

C39_CommittedSignalNotOlder ==
    [][Len(signals') > Len(signals) =>
           signals'[Len(signals')].created_at >= last_run']_vars
====
